---- MODULE Spec2Model ----
(***************************************************************************)
(* Strategy aggregation and recommendation engine of OffTrackBetting:      *)
(* BetterAnalyzer (src/src/analysis/better-analyzer.js), StrategyAggregator *)
(* (src/unnamed/part_000, second half) and RecommendationService           *)
(* (src/src/services/recommendation-service.js).                           *)
(*                                                                         *)
(* Strings are sequences of one-character strings, so that toLowerCase,    *)
(* includes and template-literal concatenation are computed.  JavaScript   *)
(* numbers are exact non-negative rationals n/d extended with d = 0:       *)
(* 0/0 is NaN and 1/0 is Infinity.                                         *)
(***************************************************************************)
EXTENDS Integers, Sequences, FiniteSets, TLC

VARIABLES
    recommendations,  \* RecommendationService.recommendations (Map, insertion order)
    now,              \* the value Date.now() returned last
    call,             \* the public call that completed last, with its inputs
    result,           \* what that call returned
    config,           \* the config object handed to the constructors
    betterProfiles,   \* BetterAnalyzer.betterProfiles (Map address -> profile)
    strategies,       \* StrategyAggregator.strategies (Map, insertion order)
    cycle,            \* per invocation of initialize/refreshRecommendations:
                      \* where it is suspended and its local variables
    snapshot,         \* recommendedStrategies of the last aggregation result
                      \* that updateRecommendations stored
    cachedHistory,    \* the bettingHistory Map (address -> history) of the
                      \* BetterAnalyzer that caches what it fetched
    lastTweetTime,    \* TwitterService.lastTweetTime (tweet key -> time)
    tweeting,         \* per invocation of tweetLatestRecommendations:
                      \* where it is suspended, its list and loop index
    timer,            \* startTweetingRecommendations: whether it was called
                      \* and when the interval timer is next due
    posts,            \* the calls of client.v2.tweet, in order
    bets,             \* BettingContract.bets (betId -> bet)
    winningBets,      \* the keys of BettingContract.winningBets
    payouts           \* the results of the successful claimWinnings calls

\* the state of the components a RecommendationService does not touch
others == <<cachedHistory, lastTweetTime, tweeting, timer, posts, bets,
            winningBets, payouts>>

vars == <<recommendations, now, call, result, config, betterProfiles,
          strategies, cycle, snapshot, others>>

----------------------------------------------------------------------------
\* Bounds of the model

MaxTime == 4
MaxCycles == 2
MaxStore == 3
MaxBets == 2
MaxProfiles == 3
MaxName == 120
MaxRuns == 2       \* invocations of tweetLatestRecommendations in flight
MaxPlaced == 2     \* bets the contract holds
MaxPayouts == 2    \* successful claims

\* those components as constructed
OthersIdle ==
    /\ cachedHistory = <<>>
    /\ lastTweetTime = <<>>
    /\ tweeting = [r \in 1..MaxRuns |-> [pc |-> "idle"]]
    /\ timer = [started |-> FALSE, next |-> 0]
    /\ posts = <<>>
    /\ bets = <<>>
    /\ winningBets = {}
    /\ payouts = <<>>

----------------------------------------------------------------------------
\* Strings

UpperCase == <<"A", "B", "C", "D", "E", "F", "G", "H", "I", "J", "K", "L", "M", "N", "O", "P", "Q", "R", "S", "T", "U", "V", "W", "X", "Y", "Z">>
LowerCase == <<"a", "b", "c", "d", "e", "f", "g", "h", "i", "j", "k", "l", "m", "n", "o", "p", "q", "r", "s", "t", "u", "v", "w", "x", "y", "z">>

LowerOf ==
    [c \in {UpperCase[i] : i \in DOMAIN UpperCase} |->
        LowerCase[CHOOSE i \in DOMAIN UpperCase : UpperCase[i] = c]]

ToLowerChar(c) == IF c \in DOMAIN LowerOf THEN LowerOf[c] ELSE c

toLowerCase(s) == [i \in DOMAIN s |-> ToLowerChar(s[i])]

includes(s, sub) ==
    \/ sub = <<>>
    \/ \E i \in 0..(Len(s) - Len(sub)) :
          /\ s[i + 1] = sub[1]
          /\ SubSeq(s, i + 1, i + Len(sub)) = sub

\* p.toLowerCase().includes(v.toLowerCase())
ContainsIgnoreCase(p, v) == includes(toLowerCase(p), toLowerCase(v))

Truthy(s) == s # <<>>

----------------------------------------------------------------------------
\* Numbers

RECURSIVE GCD(_, _)
GCD(a, b) == IF b = 0 THEN a ELSE GCD(b, a % b)

Num(n, d) ==
    IF d = 0 THEN [n |-> IF n = 0 THEN 0 ELSE 1, d |-> 0]
    ELSE LET g == GCD(n, d) IN [n |-> n \div g, d |-> d \div g]

NaN == [n |-> 0, d |-> 0]
IsNaN(x) == x.n = 0 /\ x.d = 0

NumMul(a, b) == Num(a.n * b.n, a.d * b.d)
NumDiv(a, b) == Num(a.n * b.d, a.d * b.n)
NumAdd(a, b) ==
    IF IsNaN(a) \/ IsNaN(b) THEN NaN
    ELSE IF a.d = 0 \/ b.d = 0 THEN Num(1, 0)
    ELSE Num(a.n * b.d + b.n * a.d, a.d * b.d)
NumLt(a, b) == ~IsNaN(a) /\ ~IsNaN(b) /\ a.n * b.d < b.n * a.d
NumGe(a, b) == ~IsNaN(a) /\ ~IsNaN(b) /\ a.n * b.d >= b.n * a.d
NumGt(a, b) == NumLt(b, a)

Min(a, b) == IF a < b THEN a ELSE b
Max(a, b) == IF a > b THEN a ELSE b

----------------------------------------------------------------------------
\* Configuration (the config object handed to the three constructors)

\* An option left out of the config object is 0 here: `config.x || default`
\* takes the default for undefined and for 0 alike.

DefaultUpdateInterval == 300000

\* this.updateInterval = config.recommendationUpdateInterval || 300000
updateInterval ==
    IF config.recommendationUpdateInterval # 0
    THEN config.recommendationUpdateInterval ELSE DefaultUpdateInterval

----------------------------------------------------------------------------
\* Date.now(): the clock is seen only through these calls, and successive
\* calls return non-decreasing values.  When the last call returned t, the
\* next k calls return one of these sequences.

RECURSIVE ClockSamples(_, _)
ClockSamples(t, k) ==
    IF k = 0 THEN {<<>>}
    ELSE UNION { { <<u>> \o rest : rest \in ClockSamples(u, k - 1) } : u \in t..MaxTime }

LastOr(times, t) == IF times = <<>> THEN t ELSE times[Len(times)]

----------------------------------------------------------------------------
\* RecommendationService: reads

\* `${strategy.track}-${strategy.betType}-${strategy.riskLevel}`
getStrategyKey(strategy) ==
    strategy.track \o <<"-">> \o strategy.betType \o <<"-">> \o strategy.riskLevel

Option(options, field, default) ==
    IF field \in DOMAIN options THEN options[field] ELSE default

\* Array.prototype.slice(0, end)
Slice0(s, end) ==
    LET e == IF end < 0 THEN Max(Len(s) + end, 0) ELSE Min(end, Len(s))
    IN  SubSeq(s, 1, e)

\* Array.prototype.sort((a, b) => b.confidence - a.confidence): stable
RECURSIVE InsertByConfidence(_, _)
InsertByConfidence(sorted, r) ==
    IF sorted = <<>> THEN <<r>>
    ELSE IF NumLt(sorted[1].confidence, r.confidence) THEN <<r>> \o sorted
    ELSE <<sorted[1]>> \o InsertByConfidence(Tail(sorted), r)

RECURSIVE SortByConfidenceDesc(_)
SortByConfidenceDesc(s) ==
    IF s = <<>> THEN <<>>
    ELSE InsertByConfidence(SortByConfidenceDesc(SubSeq(s, 1, Len(s) - 1)), s[Len(s)])

DefaultMinConfidence == Num(7, 10)
DefaultLimit == 10

\* SelectRecommendations, keeping only confidences above minConfidence
SelectRecommendationsStrictly(store, options) ==
    LET track == Option(options, "track", <<>>)
        betType == Option(options, "betType", <<>>)
        riskLevel == Option(options, "riskLevel", <<>>)
        minConfidence == Option(options, "minConfidence", DefaultMinConfidence)
        limit == Option(options, "limit", DefaultLimit)
        r1 == IF Truthy(track)
              THEN SelectSeq(store, LAMBDA r : r.track = track) ELSE store
        r2 == IF Truthy(betType)
              THEN SelectSeq(r1, LAMBDA r : r.betType = betType) ELSE r1
        r3 == IF Truthy(riskLevel)
              THEN SelectSeq(r2, LAMBDA r : r.riskLevel = riskLevel) ELSE r2
        r4 == SelectSeq(r3, LAMBDA r : NumGt(r.confidence, minConfidence))
    IN  Slice0(SortByConfidenceDesc(r4), limit)

\* getRecommendations up to and including .slice(0, limit)
SelectRecommendations(store, options) ==
    LET track == Option(options, "track", <<>>)
        betType == Option(options, "betType", <<>>)
        riskLevel == Option(options, "riskLevel", <<>>)
        minConfidence == Option(options, "minConfidence", DefaultMinConfidence)
        limit == Option(options, "limit", DefaultLimit)
        r1 == IF Truthy(track)
              THEN SelectSeq(store, LAMBDA r : r.track = track) ELSE store
        r2 == IF Truthy(betType)
              THEN SelectSeq(r1, LAMBDA r : r.betType = betType) ELSE r1
        r3 == IF Truthy(riskLevel)
              THEN SelectSeq(r2, LAMBDA r : r.riskLevel = riskLevel) ELSE r2
        r4 == SelectSeq(r3, LAMBDA r : NumGe(r.confidence, minConfidence))
    IN  Slice0(SortByConfidenceDesc(r4), limit)

DecayFactor == Num(9, 10)

\* ApplyDecay, decaying from the interval itself on
ApplyDecayAtInterval(r, t) ==
    IF t - r.lastUpdated >= updateInterval
    THEN [r EXCEPT !.confidence = NumMul(r.confidence, DecayFactor)]
    ELSE r

\* the callback of the final .map(): Date.now() returned t for this entry
ApplyDecay(r, t) ==
    IF t - r.lastUpdated > updateInterval
    THEN [r EXCEPT !.confidence = NumMul(r.confidence, DecayFactor)]
    ELSE r

\* getRecommendations(options), Date.now() returning times[i] for entry i
getRecommendations(store, options, times) ==
    LET selected == SelectRecommendations(store, options)
    IN  [i \in 1..Len(selected) |-> ApplyDecay(selected[i], times[i])]

BoostFactor == Num(11, 10)

PatternsMention(recommendation, value) ==
    \E i \in DOMAIN recommendation.patterns :
        ContainsIgnoreCase(recommendation.patterns[i], value)

\* AdjustOne without the surface match
AdjustOneIgnoringSurface(recommendation, race) ==
    LET a0 == Num(1, 1)
        a1 == IF PatternsMention(recommendation, race.condition)
              THEN NumMul(a0, BoostFactor) ELSE a0
        a2 == IF PatternsMention(recommendation, race.weather)
              THEN NumMul(a1, BoostFactor) ELSE a1
    IN  [track |-> recommendation.track,
         betType |-> recommendation.betType,
         riskLevel |-> recommendation.riskLevel,
         confidence |-> NumMul(recommendation.confidence, a2),
         patterns |-> recommendation.patterns,
         recommendedUsage |-> recommendation.recommendedUsage,
         lastUpdated |-> recommendation.lastUpdated,
         adjustedFor |-> [weather |-> race.weather,
                          condition |-> race.condition,
                          surface |-> race.surface]]

AdjustOne(recommendation, race) ==
    LET a0 == Num(1, 1)
        a1 == IF PatternsMention(recommendation, race.condition)
              THEN NumMul(a0, BoostFactor) ELSE a0
        a2 == IF PatternsMention(recommendation, race.weather)
              THEN NumMul(a1, BoostFactor) ELSE a1
        a3 == IF PatternsMention(recommendation, race.surface)
              THEN NumMul(a2, BoostFactor) ELSE a2
    IN  [track |-> recommendation.track,
         betType |-> recommendation.betType,
         riskLevel |-> recommendation.riskLevel,
         confidence |-> NumMul(recommendation.confidence, a3),
         patterns |-> recommendation.patterns,
         recommendedUsage |-> recommendation.recommendedUsage,
         lastUpdated |-> recommendation.lastUpdated,
         adjustedFor |-> [weather |-> race.weather,
                          condition |-> race.condition,
                          surface |-> race.surface]]

adjustRecommendationsForRace(recs, race) ==
    SortByConfidenceDesc([i \in DOMAIN recs |-> AdjustOne(recs[i], race)])


----------------------------------------------------------------------------
\* BetterAnalyzer

Null == [null |-> TRUE]

DefaultProfitableThreshold == Num(3, 2)
DefaultMinBetsForAnalysis == 50

\* this.profitableThreshold = config.profitableThreshold || 1.5
profitableThreshold ==
    IF config.profitableThreshold.n # 0
    THEN config.profitableThreshold ELSE DefaultProfitableThreshold

\* this.minBetsForAnalysis = config.minBetsForAnalysis || 50
minBetsForAnalysis ==
    IF config.minBetsForAnalysis # 0
    THEN config.minBetsForAnalysis ELSE DefaultMinBetsForAnalysis

isProfileValid(bettingHistory) == Len(bettingHistory) >= minBetsForAnalysis

RECURSIVE SumAmounts(_)
SumAmounts(h) ==
    IF h = <<>> THEN 0 ELSE h[1].amount + SumAmounts(Tail(h))

RECURSIVE SumReturns(_)
SumReturns(h) ==
    IF h = <<>> THEN 0
    ELSE (IF h[1].result = "won" THEN h[1].amount * h[1].odds ELSE 0)
         + SumReturns(Tail(h))

calculateProfitability(bettingHistory) ==
    IF Len(bettingHistory) = 0 THEN Num(0, 1)
    ELSE NumDiv(Num(SumReturns(bettingHistory), 1), Num(SumAmounts(bettingHistory), 1))

WinRate(h) ==
    Num(Cardinality({i \in DOMAIN h : h[i].result = "won"}), Len(h))

IsSpace(c) == c \in {" ", "\n", "\t"}

RECURSIVE trim(_)
trim(s) ==
    IF s = <<>> THEN s
    ELSE IF IsSpace(s[1]) THEN trim(Tail(s))
    ELSE IF IsSpace(s[Len(s)]) THEN trim(SubSeq(s, 1, Len(s) - 1))
    ELSE s

HdrBettingPatterns == <<"B", "e", "t", "t", "i", "n", "g", " ", "P", "a", "t", "t", "e", "r", "n", "s", ":">>
HdrPreferredTracks == <<"P", "r", "e", "f", "e", "r", "r", "e", "d", " ", "T", "r", "a", "c", "k", "s", ":">>
HdrPreferredBetTypes == <<"P", "r", "e", "f", "e", "r", "r", "e", "d", " ", "B", "e", "t", " ", "T", "y", "p", "e", "s", ":">>
HdrRiskProfile == <<"R", "i", "s", "k", " ", "P", "r", "o", "f", "i", "l", "e", ":">>
HdrSuccessFactors == <<"S", "u", "c", "c", "e", "s", "s", " ", "F", "a", "c", "t", "o", "r", "s", ":">>
HdrRecommendedStrategies == <<"R", "e", "c", "o", "m", "m", "e", "n", "d", "e", "d", " ", "S", "t", "r", "a", "t", "e", "g", "i", "e", "s", ":">>

EmptyAnalysis ==
    [patterns |-> <<>>, preferredTracks |-> <<>>, preferredBetTypes |-> <<>>,
     riskProfile |-> <<>>, successFactors |-> <<>>, recommendedStrategies |-> <<>>]

\* the loop of processAIResponse over the sections left to read
RECURSIVE ProcessSections(_, _, _)
ProcessSections(sections, currentSection, analysis) ==
    IF sections = <<>> THEN analysis
    ELSE LET section == sections[1]
             rest == Tail(sections)
         IN  IF includes(section, HdrBettingPatterns)
               THEN ProcessSections(rest, "patterns", analysis)
             ELSE IF includes(section, HdrPreferredTracks)
               THEN ProcessSections(rest, "tracks", analysis)
             ELSE IF includes(section, HdrPreferredBetTypes)
               THEN ProcessSections(rest, "betTypes", analysis)
             ELSE IF includes(section, HdrRiskProfile)
               THEN ProcessSections(rest, "risk", analysis)
             ELSE IF includes(section, HdrSuccessFactors)
               THEN ProcessSections(rest, "success", analysis)
             ELSE IF includes(section, HdrRecommendedStrategies)
               THEN ProcessSections(rest, "strategies", analysis)
             ELSE IF Truthy(trim(section))
               THEN ProcessSections(rest, currentSection,
                      CASE currentSection = "patterns" ->
                             [analysis EXCEPT !.patterns = Append(@, trim(section))]
                        [] currentSection = "tracks" ->
                             [analysis EXCEPT !.preferredTracks = Append(@, trim(section))]
                        [] currentSection = "betTypes" ->
                             [analysis EXCEPT !.preferredBetTypes = Append(@, trim(section))]
                        [] currentSection = "risk" ->
                             [analysis EXCEPT !.riskProfile = trim(section)]
                        [] currentSection = "success" ->
                             [analysis EXCEPT !.successFactors = Append(@, trim(section))]
                        [] currentSection = "strategies" ->
                             [analysis EXCEPT !.recommendedStrategies = Append(@, trim(section))]
                        [] OTHER -> analysis)
             ELSE ProcessSections(rest, currentSection, analysis)

\* response is the text already split at blank lines: response.split('\n\n')
processAIResponse(response) == ProcessSections(response, "", EmptyAnalysis)

\* The answer of the text-analysis collaborator: the sections of its text,
\* or Failed when messages.create rejects.
Failed == <<<<"!">>, <<"!">>>>

\* analyzePattern(address, bettingHistory); t is what Date.now() returns
analyzePattern(address, bettingHistory, response, t) ==
    IF response = Failed THEN Null
    ELSE LET analysis == processAIResponse(response)
         IN  [address |-> address,
              timestamp |-> t,
              profitability |-> calculateProfitability(bettingHistory),
              totalBets |-> Len(bettingHistory),
              winRate |-> WinRate(bettingHistory),
              patterns |-> analysis.patterns,
              preferredTracks |-> analysis.preferredTracks,
              preferredBetTypes |-> analysis.preferredBetTypes,
              riskProfile |-> analysis.riskProfile,
              successFactors |-> analysis.successFactors,
              recommendedStrategies |-> analysis.recommendedStrategies]

\* updateBetterProfile stores {...analysis, lastUpdated}: spreading null
\* leaves lastUpdated as the only field.
StoredProfile(analysis, t) ==
    IF analysis = Null THEN [lastUpdated |-> t]
    ELSE [address |-> analysis.address,
          timestamp |-> analysis.timestamp,
          profitability |-> analysis.profitability,
          totalBets |-> analysis.totalBets,
          winRate |-> analysis.winRate,
          patterns |-> analysis.patterns,
          preferredTracks |-> analysis.preferredTracks,
          preferredBetTypes |-> analysis.preferredBetTypes,
          riskProfile |-> analysis.riskProfile,
          successFactors |-> analysis.successFactors,
          recommendedStrategies |-> analysis.recommendedStrategies,
          lastUpdated |-> t]

\* number of Date.now() calls analyzeBetter makes: none when it returns
\* early, one (updateBetterProfile) when messages.create rejects, else two
AnalyzeClockCalls(bettingHistory, response) ==
    IF ~isProfileValid(bettingHistory) THEN 0
    ELSE IF NumLt(calculateProfitability(bettingHistory), profitableThreshold) THEN 0
    ELSE IF response = Failed THEN 1
    ELSE 2

\* analyzeBetter(address) from the moment the history has been fetched:
\* the value it returns and the betterProfiles map it leaves.  times are the
\* values Date.now() returns (analyzePattern, then updateBetterProfile).
analyzeBetter(profiles, address, bettingHistory, response, times) ==
    IF ~isProfileValid(bettingHistory)
    THEN [returned |-> Null, betterProfiles |-> profiles]
    ELSE IF NumLt(calculateProfitability(bettingHistory), profitableThreshold)
    THEN [returned |-> Null, betterProfiles |-> profiles]
    ELSE LET analysis == analyzePattern(address, bettingHistory, response, times[1])
         IN  [returned |-> analysis,
              betterProfiles |->
                  [a \in DOMAIN profiles \cup {address} |->
                      IF a = address THEN StoredProfile(analysis, times[Len(times)])
                      ELSE profiles[a]]]

----------------------------------------------------------------------------
\* StrategyAggregator

DefaultMinProfitability == Num(3, 2)
DefaultMinBets == 50

\* Array.prototype.sort with a comparator that orders by descending key (key[i] is the key of s[i]):
\* stable, so elements of equal key keep their order.
StableSortDesc(s, key) ==
    LET Rank(i) ==
            1 + Cardinality({j \in DOMAIN s : NumGt(key[j], key[i])})
              + Cardinality({j \in DOMAIN s : j < i /\ ~NumGt(key[j], key[i])
                                                    /\ ~NumGt(key[i], key[j])})
    IN  [k \in DOMAIN s |-> s[CHOOSE i \in DOMAIN s : Rank(i) = k]]

filterValidProfiles(profiles) ==
    SelectSeq(profiles, LAMBDA profile :
        /\ NumGe(profile.profitability,
                 IF config.minProfitability.n # 0
                 THEN config.minProfitability ELSE DefaultMinProfitability)
        /\ profile.totalBets >=
                 (IF config.minBets # 0 THEN config.minBets ELSE DefaultMinBets))

HdrTimingPatterns == <<"T", "i", "m", "i", "n", "g", " ", "P", "a", "t", "t", "e", "r", "n", "s", ":">>
HdrSelectionPatterns == <<"S", "e", "l", "e", "c", "t", "i", "o", "n", " ", "P", "a", "t", "t", "e", "r", "n", "s", ":">>
HdrManagementPatterns == <<"M", "a", "n", "a", "g", "e", "m", "e", "n", "t", " ", "P", "a", "t", "t", "e", "r", "n", "s", ":">>

EmptyPatterns ==
    [betting |-> <<>>, timing |-> <<>>, selection |-> <<>>, management |-> <<>>]

\* the loop of extractCommonPatterns over the sections left to read
RECURSIVE ExtractSections(_, _, _)
ExtractSections(sections, currentSection, patterns) ==
    IF sections = <<>> THEN patterns
    ELSE LET section == sections[1]
             rest == Tail(sections)
         IN  IF includes(section, HdrBettingPatterns)
               THEN ExtractSections(rest, "betting", patterns)
             ELSE IF includes(section, HdrTimingPatterns)
               THEN ExtractSections(rest, "timing", patterns)
             ELSE IF includes(section, HdrSelectionPatterns)
               THEN ExtractSections(rest, "selection", patterns)
             ELSE IF includes(section, HdrManagementPatterns)
               THEN ExtractSections(rest, "management", patterns)
             ELSE IF Truthy(trim(section)) /\ currentSection # ""
               THEN ExtractSections(rest, currentSection,
                      [patterns EXCEPT ![currentSection] = Append(@, trim(section))])
             ELSE ExtractSections(rest, currentSection, patterns)

extractCommonPatterns(response) == ExtractSections(response, "", EmptyPatterns)

Conservative == <<"c", "o", "n", "s", "e", "r", "v", "a", "t", "i", "v", "e">>
Moderate == <<"m", "o", "d", "e", "r", "a", "t", "e">>
Aggressive == <<"a", "g", "g", "r", "e", "s", "s", "i", "v", "e">>
RiskTiers == <<Conservative, Moderate, Aggressive>>

\* aggregateRiskProfiles, were the tiers left in the order declared
aggregateRiskProfilesUnsorted(profiles) ==
    LET Count(tier) ==
            Cardinality({i \in DOMAIN profiles :
                            toLowerCase(profiles[i].riskProfile) = tier})
        entries == [k \in DOMAIN RiskTiers |->
                       [profile |-> RiskTiers[k],
                        frequency |-> Num(Count(RiskTiers[k]), Len(profiles)),
                        count |-> Count(RiskTiers[k])]]
    IN  entries

aggregateRiskProfiles(profiles) ==
    LET Count(tier) ==
            Cardinality({i \in DOMAIN profiles :
                            toLowerCase(profiles[i].riskProfile) = tier})
        entries == [k \in DOMAIN RiskTiers |->
                       [profile |-> RiskTiers[k],
                        frequency |-> Num(Count(RiskTiers[k]), Len(profiles)),
                        count |-> Count(RiskTiers[k])]]
    IN  StableSortDesc(entries, [i \in DOMAIN entries |-> entries[i].frequency])

\* all items of the profiles' lists, in the order forEach visits them
RECURSIVE Flatten(_)
Flatten(lists) ==
    IF lists = <<>> THEN <<>> ELSE lists[1] \o Flatten(Tail(lists))

\* the keys of a Map filled by visiting items in order: first-seen order
RECURSIVE FirstSeen(_)
FirstSeen(items) ==
    IF items = <<>> THEN <<>>
    ELSE LET before == FirstSeen(SubSeq(items, 1, Len(items) - 1))
             x == items[Len(items)]
         IN  IF \E i \in DOMAIN before : before[i] = x THEN before
             ELSE Append(before, x)

Occurrences(items, x) == Cardinality({i \in DOMAIN items : items[i] = x})

aggregateTrackPreferences(profiles) ==
    LET items == Flatten([i \in DOMAIN profiles |-> profiles[i].preferredTracks])
        keys == FirstSeen(items)
        entries == [k \in DOMAIN keys |->
                       [track |-> keys[k],
                        frequency |-> Num(Occurrences(items, keys[k]), Len(profiles)),
                        count |-> Occurrences(items, keys[k])]]
    IN  StableSortDesc(entries, [i \in DOMAIN entries |-> entries[i].frequency])

aggregateBetTypes(profiles) ==
    LET items == Flatten([i \in DOMAIN profiles |-> profiles[i].preferredBetTypes])
        keys == FirstSeen(items)
        entries == [k \in DOMAIN keys |->
                       [type |-> keys[k],
                        frequency |-> Num(Occurrences(items, keys[k]), Len(profiles)),
                        count |-> Occurrences(items, keys[k])]]
    IN  StableSortDesc(entries, [i \in DOMAIN entries |-> entries[i].frequency])

RECURSIVE SumProfitability(_)
SumProfitability(profiles) ==
    IF profiles = <<>> THEN Num(0, 1)
    ELSE NumAdd(profiles[1].profitability, SumProfitability(Tail(profiles)))

calculateAverageProfitability(profiles) ==
    NumDiv(SumProfitability(profiles), Num(Len(profiles), 1))

\* generateUsageGuidelines, were the recommended stake the base stake
generateUsageGuidelinesUnscaled(riskLevel, trackFrequency, betTypeFrequency) ==
    LET confidence == NumDiv(NumAdd(trackFrequency, betTypeFrequency), Num(2, 1))
        baseStake == IF riskLevel = Conservative THEN Num(1, 100)
                     ELSE IF riskLevel = Moderate THEN Num(2, 100)
                     ELSE Num(3, 100)
    IN  [recommendedStake |-> baseStake,
         minOdds |-> IF riskLevel = Conservative THEN Num(3, 2)
                     ELSE IF riskLevel = Moderate THEN Num(2, 1)
                     ELSE Num(3, 1),
         maxStake |-> NumMul(NumMul(baseStake, confidence), Num(2, 1)),
         stopLoss |-> NumMul(NumMul(baseStake, confidence), Num(10, 1)),
         targetProfit |-> NumMul(NumMul(baseStake, confidence), Num(20, 1))]

generateUsageGuidelines(riskLevel, trackFrequency, betTypeFrequency) ==
    LET confidence == NumDiv(NumAdd(trackFrequency, betTypeFrequency), Num(2, 1))
        baseStake == IF riskLevel = Conservative THEN Num(1, 100)
                     ELSE IF riskLevel = Moderate THEN Num(2, 100)
                     ELSE Num(3, 100)
    IN  [recommendedStake |-> NumMul(baseStake, confidence),
         minOdds |-> IF riskLevel = Conservative THEN Num(3, 2)
                     ELSE IF riskLevel = Moderate THEN Num(2, 1)
                     ELSE Num(3, 1),
         maxStake |-> NumMul(NumMul(baseStake, confidence), Num(2, 1)),
         stopLoss |-> NumMul(NumMul(baseStake, confidence), Num(10, 1)),
         targetProfit |-> NumMul(NumMul(baseStake, confidence), Num(20, 1))]

\* generateRecommendedStrategies, were a pair pushed whatever the length of
\* relevantPatterns
generateRecommendedStrategiesKeepingAll(patterns, riskProfiles, trackPreferences, betTypes) ==
    LET dominantRisk == riskProfiles[1].profile
        topTracks == Slice0(trackPreferences, 3)
        preferredBets == Slice0(betTypes, 3)
        pool == patterns.betting \o patterns.timing \o patterns.selection
        Relevant(track, betType) ==
            SelectSeq(pool, LAMBDA pattern :
                \/ ContainsIgnoreCase(pattern, track.track)
                \/ ContainsIgnoreCase(pattern, betType.type))
        \* the candidates in the order the nested forEach visits them
        pairs == Flatten([i \in DOMAIN topTracks |->
                             [j \in DOMAIN preferredBets |->
                                 [track |-> topTracks[i], betType |-> preferredBets[j]]]])
        kept == pairs
        built ==
            [k \in DOMAIN kept |->
                [track |-> kept[k].track.track,
                 betType |-> kept[k].betType.type,
                 riskLevel |-> dominantRisk,
                 confidence |-> NumDiv(NumAdd(kept[k].track.frequency,
                                              kept[k].betType.frequency), Num(2, 1)),
                 patterns |-> Relevant(kept[k].track, kept[k].betType),
                 recommendedUsage |-> generateUsageGuidelines(dominantRisk,
                                          kept[k].track.frequency,
                                          kept[k].betType.frequency)]]
    IN  StableSortDesc(built, [i \in DOMAIN built |-> built[i].confidence])

generateRecommendedStrategies(patterns, riskProfiles, trackPreferences, betTypes) ==
    LET dominantRisk == riskProfiles[1].profile
        topTracks == Slice0(trackPreferences, 3)
        preferredBets == Slice0(betTypes, 3)
        pool == patterns.betting \o patterns.timing \o patterns.selection
        Relevant(track, betType) ==
            SelectSeq(pool, LAMBDA pattern :
                \/ ContainsIgnoreCase(pattern, track.track)
                \/ ContainsIgnoreCase(pattern, betType.type))
        \* the candidates in the order the nested forEach visits them
        pairs == Flatten([i \in DOMAIN topTracks |->
                             [j \in DOMAIN preferredBets |->
                                 [track |-> topTracks[i], betType |-> preferredBets[j]]]])
        kept == SelectSeq(pairs, LAMBDA c : Len(Relevant(c.track, c.betType)) > 0)
        built ==
            [k \in DOMAIN kept |->
                [track |-> kept[k].track.track,
                 betType |-> kept[k].betType.type,
                 riskLevel |-> dominantRisk,
                 confidence |-> NumDiv(NumAdd(kept[k].track.frequency,
                                              kept[k].betType.frequency), Num(2, 1)),
                 patterns |-> Relevant(kept[k].track, kept[k].betType),
                 recommendedUsage |-> generateUsageGuidelines(dominantRisk,
                                          kept[k].track.frequency,
                                          kept[k].betType.frequency)]]
    IN  StableSortDesc(built, [i \in DOMAIN built |-> built[i].confidence])

\* processAggregatedAnalysis(response, profiles); t is what Date.now() returns
processAggregatedAnalysis(response, profiles, t) ==
    LET commonPatterns == extractCommonPatterns(response)
        riskProfiles == aggregateRiskProfiles(profiles)
        trackPreferences == aggregateTrackPreferences(profiles)
        betTypes == aggregateBetTypes(profiles)
    IN  [timestamp |-> t,
         sampleSize |-> Len(profiles),
         averageProfitability |-> calculateAverageProfitability(profiles),
         commonPatterns |-> commonPatterns,
         riskProfiles |-> riskProfiles,
         trackPreferences |-> trackPreferences,
         betTypes |-> betTypes,
         recommendedStrategies |->
             generateRecommendedStrategies(commonPatterns, riskProfiles,
                                           trackPreferences, betTypes)]

\* A Map after set(key, value): an existing key keeps its place
MapSet(map, key, value) ==
    IF \E i \in DOMAIN map : map[i].key = key
    THEN [i \in DOMAIN map |->
             IF map[i].key = key THEN [key |-> key, value |-> value] ELSE map[i]]
    ELSE Append(map, [key |-> key, value |-> value])

WithLastUpdated(strategy, t) ==
    [track |-> strategy.track,
     betType |-> strategy.betType,
     riskLevel |-> strategy.riskLevel,
     confidence |-> strategy.confidence,
     patterns |-> strategy.patterns,
     recommendedUsage |-> strategy.recommendedUsage,
     lastUpdated |-> t]

\* StrategyAggregator.updateStrategies after clear(): the entries list[1..k]
\* are set in order, Date.now() returning times[i] for entry i
RECURSIVE SetStrategies(_, _, _)
SetStrategies(list, times, k) ==
    IF k = 0 THEN <<>>
    ELSE MapSet(SetStrategies(list, times, k - 1),
                list[k].track \o <<"-">> \o list[k].betType,
                WithLastUpdated(list[k], times[k]))

updateStrategies(analysis, times) ==
    SetStrategies(analysis.recommendedStrategies, times,
                  Len(analysis.recommendedStrategies))


----------------------------------------------------------------------------
\* RecommendationService: writes

Values(map) == [i \in DOMAIN map |-> map[i].value]
Range(f) == {f[i] : i \in DOMAIN f}

\* updateRecommendations after clear(): the entries list[1..k] are set in
\* order, Date.now() returning times[i] for entry i
RECURSIVE SetRecommendations(_, _, _)
SetRecommendations(list, times, k) ==
    IF k = 0 THEN <<>>
    ELSE MapSet(SetRecommendations(list, times, k - 1),
                getStrategyKey(list[k]),
                WithLastUpdated(list[k], times[k]))

\* updateRecommendations(aggregation): the store it leaves and whether it
\* threw.  clear() runs before strategies.recommendedStrategies is read, and
\* reading a property of null throws.
updateRecommendations(aggregation, times) ==
    IF aggregation = Null
    THEN [store |-> <<>>, threw |-> TRUE]
    ELSE [store |-> SetRecommendations(aggregation.recommendedStrategies, times,
                                       Len(aggregation.recommendedStrategies)),
          threw |-> FALSE]

\* aggregateStrategies(betterProfiles): what it returns and the strategies
\* map it leaves.  A failed messages.create makes analyzeMultipleProfiles
\* return null; updateStrategies(null) then clears the map and throws, and
\* the catch returns null.
aggregateStrategies(map, betterProfilesArg, response, times) ==
    LET validProfiles == filterValidProfiles(betterProfilesArg)
    IN  IF Len(validProfiles) = 0
        THEN [returned |-> Null, strategies |-> map]
        ELSE IF response = Failed
        THEN [returned |-> Null, strategies |-> <<>>]
        ELSE LET combinedAnalysis ==
                     processAggregatedAnalysis(response, validProfiles, times[1])
             IN  [returned |-> combinedAnalysis,
                  strategies |-> updateStrategies(combinedAnalysis, Tail(times))]

\* number of Date.now() calls aggregateStrategies makes
AggregateClockCalls(betterProfilesArg, response) ==
    LET validProfiles == filterValidProfiles(betterProfilesArg)
    IN  IF Len(validProfiles) = 0 \/ response = Failed THEN 0
        ELSE 1 + Len(generateRecommendedStrategies(
                         extractCommonPatterns(response),
                         aggregateRiskProfiles(validProfiles),
                         aggregateTrackPreferences(validProfiles),
                         aggregateBetTypes(validProfiles)))

----------------------------------------------------------------------------
\* The environment: what the collaborators may answer

Bel == <<"B", "e", "l">>
Spa == <<"S", "p", "a">>
Win == <<"w", "i", "n">>
Place == <<"p", "l", "a", "c", "e">>
Fast == <<"f", "a", "s", "t">>
Rain == <<"r", "a", "i", "n">>
Dirt == <<"d", "i", "r", "t">>
Turf == <<"t", "u", "r", "f">>

Bet(amount, odds, res) == [amount |-> amount, odds |-> odds, result |-> res]

\* getProgramAccounts: the addresses found; a rejected call gives []
AccountLists == {<<>>, <<"better1">>}

\* getBettingHistory during a cycle; a rejected fetch gives []
CycleHistories ==
    {<<>>, <<Bet(2, 3, "won"), Bet(2, 3, "won")>>}

ProfileResponseB ==
    <<HdrPreferredTracks, Bel, Spa, HdrPreferredBetTypes, Win, HdrRiskProfile, Aggressive>>
ProfileResponses == {ProfileResponseB, Failed}

AggregationResponseRelevant ==
    <<HdrBettingPatterns, <<"B", "E", "L", " ", "f", "a", "s", "t">>, HdrTimingPatterns, <<"S", "p", "a", " ", "r", "a", "i", "n">>>>
AggregationResponseIrrelevant ==
    <<HdrManagementPatterns, <<"b", "e", "l", " ", "w", "i", "n">>, HdrSelectionPatterns, <<"x", "y", "z">>>>
AggregationResponses ==
    {AggregationResponseRelevant, AggregationResponseIrrelevant, Failed}

BaseConfig ==
    [minBetsForAnalysis |-> 2, profitableThreshold |-> Num(3, 2),
     minBets |-> 2, minProfitability |-> Num(3, 2),
     recommendationUpdateInterval |-> 2, strategyUpdateInterval |-> 2]

CycleOptions == {<<>>}

----------------------------------------------------------------------------
\* Operations

Procs == 1..MaxCycles

Idle == [pc |-> "idle", addresses |-> <<>>, profiles |-> <<>>, aggregation |-> Null]

NoCall == [op |-> "none", n |-> 0]
NoResult == [kind |-> "none"]

\* getRecommendations(options), were it to store the decayed confidence
GetRecommendationsWritingBack(options) ==
    LET selected == SelectRecommendations(Values(recommendations), options)
    IN  \E times \in ClockSamples(now, Len(selected)) :
          LET items == getRecommendations(Values(recommendations), options, times)
          IN  /\ result' = [kind |-> "list", items |-> items]
              /\ call' = [op |-> "getRecommendations", n |-> 1 - call.n,
                          options |-> options, times |-> times]
              /\ now' = LastOr(times, now)
              /\ recommendations' =
                     [i \in DOMAIN recommendations |->
                         IF \E j \in DOMAIN items :
                                getStrategyKey(items[j]) = recommendations[i].key
                         THEN [recommendations[i] EXCEPT !.value.confidence =
                                  items[CHOOSE j \in DOMAIN items :
                                      getStrategyKey(items[j]) = recommendations[i].key].confidence]
                         ELSE recommendations[i]]
              /\ UNCHANGED <<config, others, betterProfiles, strategies, cycle, snapshot>>

\* getRecommendations(options)
GetRecommendations(options) ==
    LET selected == SelectRecommendations(Values(recommendations), options)
    IN  \E times \in ClockSamples(now, Len(selected)) :
          /\ result' = [kind |-> "list",
                        items |-> getRecommendations(Values(recommendations),
                                                     options, times)]
          /\ call' = [op |-> "getRecommendations", n |-> 1 - call.n,
                      options |-> options, times |-> times]
          /\ now' = LastOr(times, now)
          /\ UNCHANGED <<recommendations, config, others, betterProfiles, strategies,
                         cycle, snapshot>>

\* {track: race.track, ...options}
MergeOptions(base, options) ==
    [f \in DOMAIN base \cup DOMAIN options |->
        IF f \in DOMAIN options THEN options[f] ELSE base[f]]

\* getRecommendationForRace(raceId, options), from the moment getRaceDetails
\* has answered with race (Null: no such account, or the fetch failed)
GetRecommendationForRace(race, options) ==
    IF race = Null
    THEN /\ result' = [kind |-> "null"]
         /\ call' = [op |-> "getRecommendationForRace", n |-> 1 - call.n,
                     race |-> race, options |-> options,
                     times |-> <<>>, recs |-> <<>>]
         /\ UNCHANGED <<recommendations, now, config, others, betterProfiles,
                        strategies, cycle, snapshot>>
    ELSE LET merged == MergeOptions([track |-> race.track], options)
             selected == SelectRecommendations(Values(recommendations), merged)
         IN  \E times \in ClockSamples(now, Len(selected)) :
               LET recs == getRecommendations(Values(recommendations), merged, times)
               IN  /\ result' = [kind |-> "list",
                                 items |-> adjustRecommendationsForRace(recs, race)]
                   /\ call' = [op |-> "getRecommendationForRace", n |-> 1 - call.n,
                               race |-> race, options |-> options,
                               times |-> times, recs |-> recs]
                   /\ now' = LastOr(times, now)
                   /\ UNCHANGED <<recommendations, config, others, betterProfiles,
                                  strategies, cycle, snapshot>>

\* initialize() or refreshRecommendations() is called: it runs up to the
\* await of getProgramAccounts.  Nothing in either method looks at whether
\* another invocation is still running.
StartCycle(p) ==
    /\ cycle[p].pc = "idle"
    /\ cycle' = [cycle EXCEPT ![p].pc = "find"]
    /\ UNCHANGED <<recommendations, now, call, result, config, others, betterProfiles,
                   strategies, snapshot>>

\* findProfitableBetters resumes with the accounts found
FindDone(p, accounts) ==
    /\ cycle[p].pc = "find"
    /\ cycle' = [cycle EXCEPT ![p].pc = "analyze", ![p].addresses = accounts]
    /\ UNCHANGED <<recommendations, now, call, result, config, others, betterProfiles,
                   strategies, snapshot>>

\* analyzeBetters(addresses), were the catch around one address to leave
\* the loop
AnalyzeNextAborting(p, bettingHistory, response) ==
    /\ cycle[p].pc = "analyze"
    /\ cycle[p].addresses # <<>>
    /\ \E times \in ClockSamples(now, AnalyzeClockCalls(bettingHistory, response)) :
         LET address == cycle[p].addresses[1]
             done == analyzeBetter(betterProfiles, address, bettingHistory,
                                   response, times)
         IN  /\ betterProfiles' = done.betterProfiles
             /\ now' = LastOr(times, now)
             /\ cycle' = [cycle EXCEPT
                    ![p].addresses = IF done.returned # Null THEN Tail(@) ELSE <<>>,
                    ![p].profiles = IF done.returned # Null
                                    THEN Append(@, done.returned) ELSE @]
    /\ UNCHANGED <<recommendations, call, result, config, others, strategies, snapshot>>

\* one iteration of the loop of analyzeBetters
AnalyzeNext(p, bettingHistory, response) ==
    /\ cycle[p].pc = "analyze"
    /\ cycle[p].addresses # <<>>
    /\ \E times \in ClockSamples(now, AnalyzeClockCalls(bettingHistory, response)) :
         LET address == cycle[p].addresses[1]
             done == analyzeBetter(betterProfiles, address, bettingHistory,
                                   response, times)
         IN  /\ betterProfiles' = done.betterProfiles
             /\ now' = LastOr(times, now)
             /\ cycle' = [cycle EXCEPT
                    ![p].addresses = Tail(@),
                    ![p].profiles = IF done.returned # Null
                                    THEN Append(@, done.returned) ELSE @]
    /\ UNCHANGED <<recommendations, call, result, config, others, strategies, snapshot>>

\* analyzeBetters has returned; aggregateStrategies runs, response being the
\* answer of messages.create
Aggregate(p, response) ==
    /\ cycle[p].pc = "analyze"
    /\ cycle[p].addresses = <<>>
    /\ \E times \in ClockSamples(now, AggregateClockCalls(cycle[p].profiles, response)) :
         LET done == aggregateStrategies(strategies, cycle[p].profiles, response, times)
         IN  /\ strategies' = done.strategies
             /\ now' = LastOr(times, now)
             /\ cycle' = [cycle EXCEPT ![p].pc = "update",
                                       ![p].profiles = <<>>,
                                       ![p].aggregation = done.returned]
    /\ UNCHANGED <<recommendations, call, result, config, others, betterProfiles, snapshot>>

\* await this.updateRecommendations(strategies), to the return of
\* initialize/refreshRecommendations: true, or false from the catch
UpdateRecommendations(p) ==
    /\ cycle[p].pc = "update"
    /\ LET aggregation == cycle[p].aggregation
           k == IF aggregation = Null THEN 0
                ELSE Len(aggregation.recommendedStrategies)
       IN  \E times \in ClockSamples(now, k) :
             LET done == updateRecommendations(aggregation, times)
             IN  /\ recommendations' = done.store
                 /\ now' = LastOr(times, now)
                 /\ result' = [kind |-> "boolean", value |-> ~done.threw]
                 /\ call' = [op |-> "refreshRecommendations", n |-> call.n]
                 /\ snapshot' = IF aggregation = Null THEN snapshot
                                ELSE aggregation.recommendedStrategies
    /\ cycle' = [cycle EXCEPT ![p] = Idle]
    /\ UNCHANGED <<config, others, betterProfiles, strategies>>

Init ==
    /\ recommendations = <<>>
    /\ strategies = <<>>
    /\ betterProfiles = <<>>
    /\ now = MaxTime - 1
    /\ config = BaseConfig
    /\ OthersIdle
    /\ call = NoCall
    /\ result = NoResult
    /\ cycle = [p \in Procs |-> Idle]
    /\ snapshot = <<>>

Next ==
    \/ \E options \in CycleOptions : GetRecommendations(options)
    \/ \E p \in Procs : StartCycle(p)
    \/ \E p \in Procs, accounts \in AccountLists : FindDone(p, accounts)
    \/ \E p \in Procs, bettingHistory \in CycleHistories, response \in ProfileResponses :
           AnalyzeNext(p, bettingHistory, response)
    \/ \E p \in Procs, response \in AggregationResponses : Aggregate(p, response)
    \/ \E p \in Procs : UpdateRecommendations(p)

Spec == Init /\ [][Next]_vars

----------------------------------------------------------------------------
\* Reads of a filled store.  The stores are aggregation outputs as
\* generateRecommendedStrategies builds them (sorted by descending
\* confidence, one risk level, every pattern naming the track or the bet
\* type), stored by updateRecommendations with non-decreasing lastUpdated.

Kee == <<"K", "e", "e">>
Show == <<"s", "h", "o", "w">>

MakeStrategy(track, betType, riskLevel, trackFrequency, betTypeFrequency, patterns) ==
    [track |-> track,
     betType |-> betType,
     riskLevel |-> riskLevel,
     confidence |-> NumDiv(NumAdd(trackFrequency, betTypeFrequency), Num(2, 1)),
     patterns |-> patterns,
     recommendedUsage |->
         generateUsageGuidelines(riskLevel, trackFrequency, betTypeFrequency)]

\* confidences 0.95, 0.85, 0.82, 0.79, 0.72, 0.6
Catalogue ==
    <<MakeStrategy(Bel, Win, Moderate, Num(1, 1), Num(9, 10), <<<<"B", "E", "L", " ", "f", "a", "s", "t">>>>),
      MakeStrategy(Spa, Win, Moderate, Num(4, 5), Num(9, 10), <<<<"S", "p", "a", " ", "r", "a", "i", "n">>, <<"w", "i", "n", " ", "d", "i", "r", "t">>>>),
      MakeStrategy(Bel, Place, Moderate, Num(1, 1), Num(16, 25), <<<<"p", "l", "a", "c", "e", " ", "F", "a", "s", "t">>, <<"b", "e", "l", " ", "r", "a", "i", "n", " ", "d", "i", "r", "t">>>>),
      MakeStrategy(Bel, Show, Moderate, Num(1, 1), Num(29, 50), <<<<"s", "h", "o", "w", " ", "t", "u", "r", "f">>>>),
      MakeStrategy(Spa, Place, Moderate, Num(4, 5), Num(16, 25), <<<<"s", "p", "a">>>>),
      MakeStrategy(Kee, Win, Moderate, Num(3, 10), Num(9, 10), <<<<"K", "e", "e", " ", "w", "i", "n">>>>)>>

\* the strictly increasing index sequences of length k over lo..n
RECURSIVE Increasing(_, _, _)
Increasing(lo, n, k) ==
    IF k = 0 THEN {<<>>}
    ELSE UNION { { <<i>> \o rest : rest \in Increasing(i + 1, n, k - 1) } : i \in lo..n }

ScenarioList == [i \in 1..5 |-> Catalogue[<<1, 2, 3, 4, 6>>[i]]]

QueryLists ==
    { [i \in DOMAIN idx |-> Catalogue[idx[i]]] :
        idx \in UNION { Increasing(1, Len(Catalogue), k) : k \in 0..MaxStore } }
    \cup {ScenarioList}

QueryOptions ==
    {<<>>,
     [minConfidence |-> Num(4, 5), limit |-> 3],
     [track |-> Bel, minConfidence |-> Num(79, 100)],
     [betType |-> Place, limit |-> 1],
     [riskLevel |-> Aggressive],
     [track |-> <<>>, riskLevel |-> Moderate, minConfidence |-> Num(0, 1), limit |-> 2],
     [limit |-> 0]}

RaceOptions ==
    {<<>>, [minConfidence |-> Num(3, 5), limit |-> 2], [track |-> Spa]}

QueryRaces ==
    {[track |-> Bel, surface |-> Dirt, weather |-> Rain, condition |-> Fast],
     [track |-> Spa, surface |-> Turf, weather |-> Rain, condition |-> Fast],
     [track |-> Kee, surface |-> Turf, weather |-> <<>>, condition |-> Fast]}

InitQuery ==
    /\ config = BaseConfig
    /\ OthersIdle
    /\ \E list \in QueryLists, t \in 0..1 :
         \E times \in ClockSamples(t, Len(list)) :
           /\ times \in Seq(0..1)
           /\ recommendations = SetRecommendations(list, times, Len(list))
           /\ strategies = updateStrategies([recommendedStrategies |-> list], times)
           /\ snapshot = list
    /\ now = config.recommendationUpdateInterval
    /\ betterProfiles = <<>>
    /\ cycle = [p \in Procs |-> Idle]
    /\ call = NoCall
    /\ result = NoResult

NextQuery ==
    \/ \E options \in QueryOptions : GetRecommendations(options)
    \/ \E race \in QueryRaces \cup {Null}, options \in RaceOptions :
           GetRecommendationForRace(race, options)

SpecQuery == InitQuery /\ [][NextQuery]_vars

----------------------------------------------------------------------------
\* Calls of the BetterAnalyzer on its own

\* analyzeBetter(address), from the moment getBettingHistory has answered
\* with bettingHistory ([] when the fetch failed)
AnalyzeBetter(address, bettingHistory, response) ==
    /\ \E times \in ClockSamples(now, AnalyzeClockCalls(bettingHistory, response)) :
         LET done == analyzeBetter(betterProfiles, address, bettingHistory,
                                   response, times)
         IN  /\ betterProfiles' = done.betterProfiles
             /\ now' = LastOr(times, now)
             /\ result' = [kind |-> "profile", value |-> done.returned]
    /\ call' = [op |-> "analyzeBetter", n |-> 1 - call.n, address |-> address,
                bettingHistory |-> bettingHistory]
    /\ UNCHANGED <<recommendations, config, others, strategies, cycle, snapshot>>

\* calculateProfitability(bettingHistory)
CalculateProfitability(bettingHistory) ==
    /\ result' = [kind |-> "number", value |-> calculateProfitability(bettingHistory)]
    /\ call' = [op |-> "calculateProfitability", n |-> 1 - call.n,
                bettingHistory |-> bettingHistory]
    /\ UNCHANGED <<recommendations, now, config, others, betterProfiles, strategies,
                   cycle, snapshot>>

\* extractBetDetails reads amount and odds as one byte each
Bets == {Bet(amount, 3, res) : amount \in {0, 2}, res \in {"won", "lost"}}

RECURSIVE Histories(_)
Histories(k) ==
    IF k = 0 THEN {<<>>}
    ELSE Histories(k - 1)
         \cup {Append(h, b) : h \in {g \in Histories(k - 1) : Len(g) = k - 1}, b \in Bets}

InitAnalyzer ==
    /\ recommendations = <<>>
    /\ strategies = <<>>
    /\ betterProfiles = <<>>
    /\ now = MaxTime
    /\ config = BaseConfig
    /\ OthersIdle
    /\ call = NoCall
    /\ result = NoResult
    /\ cycle = [p \in Procs |-> Idle]
    /\ snapshot = <<>>

\* processAIResponse(response), response being the text split at blank lines
ProcessAIResponse(response) ==
    /\ result' = [kind |-> "analysis", value |-> processAIResponse(response)]
    /\ call' = [op |-> "processAIResponse", n |-> 1 - call.n, response |-> response]
    /\ UNCHANGED <<recommendations, now, config, others, betterProfiles, strategies,
                   cycle, snapshot>>

\* texts the collaborator may answer: sections before any header, under a
\* header the code knows and under one it does not
ParseResponses ==
    LET notes == <<"N", "o", "t", "e", "s", ":">>
        text == <<" ">> \o Bel \o <<" ">> \o Fast \o <<" ">>
    IN  {ProfileResponseB,
         <<text, HdrRiskProfile, Moderate>>,
         <<HdrBettingPatterns, text, notes, Rain>>,
         <<notes, Rain, HdrPreferredTracks, Bel, <<" ">>, Spa, HdrSuccessFactors,
           Turf \o <<":">>, Dirt, HdrRecommendedStrategies, text>>}

NextAnalyzer ==
    \/ \E bettingHistory \in Histories(MaxBets), response \in ProfileResponses :
           AnalyzeBetter("better1", bettingHistory, response)
    \/ \E bettingHistory \in Histories(MaxBets) : CalculateProfitability(bettingHistory)
    \/ \E response \in ParseResponses : ProcessAIResponse(response)

SpecAnalyzer == InitAnalyzer /\ [][NextAnalyzer]_vars

----------------------------------------------------------------------------
\* One refresh cycle at a time over several addresses

\* getProgramAccounts answers with two or three accounts
CycleAccountLists ==
    {<<"better1", "better2">>, <<"better1", "better2", "better3">>}

InitCycle ==
    /\ recommendations = <<>>
    /\ strategies = <<>>
    /\ betterProfiles = <<>>
    /\ now = MaxTime - 1
    /\ config = BaseConfig
    /\ OthersIdle
    /\ call = NoCall
    /\ result = NoResult
    /\ cycle = [p \in Procs |-> Idle]
    /\ snapshot = <<>>

NextCycle ==
    \/ StartCycle(1)
    \/ \E accounts \in CycleAccountLists : FindDone(1, accounts)
    \/ \E bettingHistory \in CycleHistories, response \in ProfileResponses :
           AnalyzeNext(1, bettingHistory, response)
    \/ \E response \in AggregationResponses : Aggregate(1, response)
    \/ UpdateRecommendations(1)

SpecCycle == InitCycle /\ [][NextCycle]_vars

----------------------------------------------------------------------------
\* Aggregation of the profiles analyzeBetters has gathered

Aqu == <<"A", "q", "u">>
BelWin == <<"B", "e", "l", "-", "w", "i", "n">>
WinPlace == <<"w", "i", "n", "-", "p", "l", "a", "c", "e">>

\* the text messages.create answers to analyzePattern, split at blank lines
ProfileText(patterns, tracks, betTypes, risk) ==
    <<HdrBettingPatterns>> \o patterns \o <<HdrPreferredTracks>> \o tracks
        \o <<HdrPreferredBetTypes>> \o betTypes \o <<HdrRiskProfile, risk>>

\* the profiles analyzePattern builds at time t from a history of two won
\* bets and the text answered
ProfileCatalogue(t) ==
    LET bettingHistory == <<Bet(2, 3, "won"), Bet(2, 3, "won")>>
    IN  <<analyzePattern("better1", bettingHistory,
              ProfileText(<<Bel \o <<" ">> \o Fast>>, <<Bel, Spa>>, <<Win>>,
                          <<"M", "o", "d", "e", "r", "a", "t", "e">>), t),
          analyzePattern("better2", bettingHistory,
              ProfileText(<<Place \o <<" ">> \o Turf>>, <<Bel, Kee>>, <<Win, Place>>,
                          Moderate), t),
          analyzePattern("better3", bettingHistory,
              ProfileText(<<>>, <<Bel, Aqu>>, <<Show>>, Aggressive), t),
          analyzePattern("better4", bettingHistory,
              ProfileText(<<Spa \o <<" ">> \o Rain>>, <<Spa, Spa>>, <<Place>>,
                          <<"L", "o", "w", " ", "r", "i", "s", "k">>), t),
          analyzePattern("better5", bettingHistory,
              ProfileText(<<>>, <<Bel, BelWin>>, <<WinPlace, Place>>, Aggressive), t)>>

ProfileLists(t) ==
    { [i \in DOMAIN idx |-> ProfileCatalogue(t)[idx[i]]] :
        idx \in UNION { Increasing(1, Len(ProfileCatalogue(t)), k) : k \in 0..MaxProfiles } }

\* the text messages.create answers to analyzeMultipleProfiles
AggregationResponseByBetType ==
    <<HdrSelectionPatterns, <<" ">> \o Place \o <<" ">> \o Dirt, HdrBettingPatterns, Bel \o <<" ">> \o Turf>>
AggregatorResponses ==
    {AggregationResponseRelevant, AggregationResponseIrrelevant,
     AggregationResponseByBetType, Failed}

\* configurations: every threshold given, or minBets left out
AggregatorConfigs ==
    {BaseConfig, [BaseConfig EXCEPT !.minBets = 0]}

InitAggregator ==
    /\ recommendations = <<>>
    /\ strategies = <<>>
    /\ now = MaxTime - 1
    /\ config \in AggregatorConfigs
    /\ OthersIdle
    /\ call = NoCall
    /\ result = NoResult
    /\ snapshot = <<>>
    /\ \E profiles \in ProfileLists(now) :
         /\ cycle = [p \in Procs |->
                       IF p = 1
                       THEN [pc |-> "analyze", addresses |-> <<>>,
                             profiles |-> profiles, aggregation |-> Null]
                       ELSE Idle]
         /\ betterProfiles =
               [a \in {profiles[i].address : i \in DOMAIN profiles} |->
                   StoredProfile(CHOOSE x \in Range(profiles) : x.address = a, now)]

NextAggregator ==
    \/ \E response \in AggregatorResponses : Aggregate(1, response)
    \/ UpdateRecommendations(1)

SpecAggregator == InitAggregator /\ [][NextAggregator]_vars

----------------------------------------------------------------------------
\* TwitterService: the text of a recommendation tweet.  A character of the
\* source outside ASCII is written "uXXXX", one element for one UTF-16 unit.

\* the fixed pieces of the template literals of formatRecommendationTweet
Txt ==
    [ header |->
        <<"u011F", "u0178", "u2021", " ", "H", "o", "r", "s", "e", " ", "R", "a", "c", "i",
        "n", "g", " ", "T", "i", "p", " ">>,
     track |->
        <<"T", "r", "a", "c", "k", ":", " ">>,
     betType |->
        <<"B", "e", "t", " ", "T", "y", "p", "e", ":", " ">>,
     riskLevel |->
        <<"R", "i", "s", "k", " ", "L", "e", "v", "e", "l", ":", " ">>,
     confidence |->
        <<"C", "o", "n", "f", "i", "d", "e", "n", "c", "e", ":", " ">>,
     percent |->
        <<"%", "\n", "\n">>,
     keyInsight |->
        <<"u011F", "u0178", "u2019", "u00A1", " ", "K", "e", "y", " ", "I", "n", "s", "i", "g",
        "h", "t", ":", " ">>,
     stake |->
        <<"u011F", "u0178", "u201C", "u0160", " ", "R", "e", "c", "o", "m", "m", "e", "n", "d",
        "e", "d", " ", "s", "t", "a", "k", "e", ":", " ">>,
     ofBankroll |->
        <<"%", " ", "o", "f", " ", "b", "a", "n", "k", "r", "o", "l", "l", "\n">>,
     minOdds |->
        <<"M", "i", "n", " ", "o", "d", "d", "s", ":", " ">>,
     times |->
        <<"x", "\n">>,
     disclaimer |->
        <<"\n", "u00E2", "u0161", "u00A0", "u00EF", "u00B8", " ", "T", "h", "i", "s", " ", "i",
        "s", " ", "A", "I", "-", "g", "e", "n", "e", "r", "a", "t", "e", "d", " ", "a", "n",
        "a", "l", "y", "s", "i", "s", ".", " ", "A", "l", "w", "a", "y", "s", " ", "b", "e",
        "t", " ", "r", "e", "s", "p", "o", "n", "s", "i", "b", "l", "y", ".">>,
     hashtags |->
        <<"\n", "\n", "#", "H", "o", "r", "s", "e", "R", "a", "c", "i", "n", "g", " ", "#",
        "B", "e", "t", "t", "i", "n", "g", "T", "i", "p", "s", " ", "#", "A", "I">>]

\* the marks getConfidenceEmoji returns
Emoji ==
    [ fire |->
        <<"u011F", "u0178", "u201D", "u00A5">>,
     strong |->
        <<"u011F", "u0178", "u2019", "u00AA">>,
     thumb |->
        <<"u011F", "u0178", "u2018">>,
     thinking |->
        <<"u011F", "u0178", "u00A4", "u201D">>]

\* budgets of truncateText: the key insight and the whole tweet
KeyInsightBudget == 50
TweetBudget == 280

Digit == <<"0", "1", "2", "3", "4", "5", "6", "7", "8", "9">>

\* the decimal digits of a natural number
RECURSIVE NatToString(_)
NatToString(n) ==
    IF n < 10 THEN <<Digit[n + 1]>>
    ELSE Append(NatToString(n \div 10), Digit[(n % 10) + 1])

\* the digits behind the point of r / d (0 <= r < d), as long division
\* gives them; at most 17, where a double's shortest form ends
RECURSIVE FractionDigits(_, _, _)
FractionDigits(r, d, k) ==
    IF r = 0 \/ k = 0 THEN <<>>
    ELSE <<Digit[((10 * r) \div d) + 1]>> \o FractionDigits((10 * r) % d, d, k - 1)

\* `${x}` for a number x >= 0
NumberToString(x) ==
    IF IsNaN(x) THEN <<"N", "a", "N">>
    ELSE IF x.d = 0 THEN <<"I", "n", "f", "i", "n", "i", "t", "y">>
    ELSE NatToString(x.n \div x.d)
         \o (IF x.n % x.d = 0 THEN <<>>
             ELSE <<".">> \o FractionDigits(x.n % x.d, x.d, 17))

\* Math.round(x) for x >= 0: halves go up
MathRound(x) ==
    IF x.d = 0 THEN x ELSE Num((2 * x.n + x.d) \div (2 * x.d), 1)

\* String.prototype.slice(0, maxLength - 3) + '...'
truncateTextKeepingCut(text, maxLength) ==
    IF Len(text) <= maxLength THEN text
    ELSE Slice0(text, maxLength) \o <<".", ".", ".">>

truncateText(text, maxLength) ==
    IF Len(text) <= maxLength THEN text
    ELSE Slice0(text, maxLength - 3) \o <<".", ".", ".">>

getConfidenceEmoji(confidence) ==
    IF NumGe(confidence, Num(9, 10)) THEN Emoji.fire
    ELSE IF NumGe(confidence, Num(8, 10)) THEN Emoji.strong
    ELSE IF NumGe(confidence, Num(7, 10)) THEN Emoji.thumb
    ELSE Emoji.thinking

\* the key insight line's pattern, or no line at all
KeyInsight(recommendation) ==
    IF "patterns" \in DOMAIN recommendation /\ Len(recommendation.patterns) > 0
    THEN truncateText(recommendation.patterns[1], KeyInsightBudget)
    ELSE Null

\* the tweet before the last truncateText
TweetText(recommendation) ==
    LET confidence == MathRound(NumMul(recommendation.confidence, Num(100, 1)))
        emoji == getConfidenceEmoji(recommendation.confidence)
    IN  Txt.header \o emoji \o <<"\n", "\n">>
        \o Txt.track \o recommendation.track \o <<"\n">>
        \o Txt.betType \o recommendation.betType \o <<"\n">>
        \o Txt.riskLevel \o recommendation.riskLevel \o <<"\n">>
        \o Txt.confidence \o NumberToString(confidence) \o Txt.percent
        \o (IF KeyInsight(recommendation) # Null
            THEN Txt.keyInsight \o KeyInsight(recommendation) \o <<"\n", "\n">>
            ELSE <<>>)
        \o (IF "recommendedUsage" \in DOMAIN recommendation
            THEN LET usage == recommendation.recommendedUsage
                 IN  Txt.stake
                     \o NumberToString(MathRound(NumMul(usage.recommendedStake,
                                                        Num(100, 1))))
                     \o Txt.ofBankroll
                     \o Txt.minOdds \o NumberToString(usage.minOdds) \o Txt.times
            ELSE <<>>)
        \o Txt.disclaimer
        \o Txt.hashtags

formatRecommendationTweet(recommendation) ==
    truncateText(TweetText(recommendation), TweetBudget)

\* formatRecommendationTweet(recommendation), as tweetRecommendation calls it
FormatRecommendationTweet(recommendation) ==
    /\ result' = [kind |-> "text",
                  value |-> formatRecommendationTweet(recommendation)]
    /\ call' = [op |-> "formatRecommendationTweet", n |-> 1 - call.n,
                recommendation |-> recommendation,
                insight |-> KeyInsight(recommendation)]
    /\ UNCHANGED <<recommendations, now, config, others, betterProfiles, strategies,
                   cycle, snapshot>>

\* truncateText(text, maxLength)
TruncateText(text, maxLength) ==
    /\ result' = [kind |-> "text", value |-> truncateText(text, maxLength)]
    /\ call' = [op |-> "truncateText", n |-> 1 - call.n,
                text |-> text, maxLength |-> maxLength]
    /\ UNCHANGED <<recommendations, now, config, others, betterProfiles, strategies,
                   cycle, snapshot>>

\* a text of n letters
Letters(n) == [i \in 1..n |-> "x"]

\* names and patterns are sections of the collaborator's text, of any length
TweetNames == {Bel, Bel \o Letters(MaxName)}
TweetPatterns ==
    {<<>>} \cup
    {<<Bel \o Letters(n)>> :
        n \in {0, KeyInsightBudget - 4, KeyInsightBudget - 3, KeyInsightBudget - 2,
               KeyInsightBudget + MaxName}}

\* what getRecommendations hands to tweetRecommendation, and the same
\* without patterns or usage
TweetRecommendations ==
    LET full == {WithLastUpdated(
                     MakeStrategy(track, betType, riskLevel, trackFrequency,
                                  Num(1, 1), patterns), 0) :
                   track \in TweetNames, betType \in {Win, Bel \o Letters(MaxName)},
                   riskLevel \in {Conservative, Moderate},
                   trackFrequency \in {Num(1, 1), Num(7, 10), Num(1, 3)},
                   patterns \in TweetPatterns}
    IN  full \cup {[f \in DOMAIN r \ {"patterns", "recommendedUsage"} |-> r[f]] :
                      r \in full}

InitTweet ==
    /\ recommendations = <<>>
    /\ strategies = <<>>
    /\ betterProfiles = <<>>
    /\ now = MaxTime
    /\ config = BaseConfig
    /\ OthersIdle
    /\ call = NoCall
    /\ result = NoResult
    /\ cycle = [p \in Procs |-> Idle]
    /\ snapshot = <<>>

NextTweet ==
    \/ \E recommendation \in TweetRecommendations :
           FormatRecommendationTweet(recommendation)
    \/ \E pattern \in TweetPatterns \ {<<>>} :
           TruncateText(pattern[1], KeyInsightBudget)
    \/ \E recommendation \in TweetRecommendations :
           TruncateText(TweetText(recommendation), TweetBudget)

SpecTweet == InitTweet /\ [][NextTweet]_vars

----------------------------------------------------------------------------
\* Cycles of the service whose BetterAnalyzer caches the histories it fetched

\* getBettingHistory(address) of the caching analyzer, fetched being what
\* the history source would answer now: the history it returns and the
\* bettingHistory Map it leaves
getBettingHistoryCached(cache, address, fetched) ==
    IF address \in DOMAIN cache
    THEN [history |-> cache[address], cache |-> cache]
    ELSE [history |-> fetched,
          cache |-> [a \in DOMAIN cache \cup {address} |->
                        IF a = address THEN fetched ELSE cache[a]]]

\* one iteration of the loop of analyzeBetters, analyzeBetter reading the
\* history through the cache
AnalyzeNextCached(p, fetched, response) ==
    /\ cycle[p].pc = "analyze"
    /\ cycle[p].addresses # <<>>
    /\ LET address == cycle[p].addresses[1]
           got == getBettingHistoryCached(cachedHistory, address, fetched)
       IN  /\ cachedHistory' = got.cache
           /\ \E times \in ClockSamples(now, AnalyzeClockCalls(got.history, response)) :
                LET done == analyzeBetter(betterProfiles, address, got.history,
                                          response, times)
                IN  /\ betterProfiles' = done.betterProfiles
                    /\ now' = LastOr(times, now)
                    /\ cycle' = [cycle EXCEPT
                           ![p].addresses = Tail(@),
                           ![p].profiles = IF done.returned # Null
                                           THEN Append(@, done.returned) ELSE @]
    /\ UNCHANGED <<recommendations, call, result, config, strategies, snapshot,
                   lastTweetTime, tweeting, timer, posts, bets, winningBets,
                   payouts>>

\* what the history source holds for an address at the time of a cycle
SourceHistories ==
    {<<Bet(2, 3, "won"), Bet(2, 3, "won")>>,
     <<Bet(2, 3, "won"), Bet(2, 3, "won"), Bet(2, 3, "lost")>>,
     <<Bet(2, 3, "lost"), Bet(2, 3, "lost")>>}

InitCached ==
    /\ recommendations = <<>>
    /\ strategies = <<>>
    /\ betterProfiles = <<>>
    /\ now = MaxTime - 1
    /\ config = BaseConfig
    /\ OthersIdle
    /\ call = NoCall
    /\ result = NoResult
    /\ cycle = [p \in Procs |-> Idle]
    /\ snapshot = <<>>

NextCached ==
    \/ StartCycle(1)
    \/ FindDone(1, <<"better1", "better2", "better3">>)
    \/ \E fetched \in SourceHistories, response \in ProfileResponses :
           AnalyzeNextCached(1, fetched, response)
    \/ \E response \in AggregationResponses : Aggregate(1, response)
    \/ UpdateRecommendations(1)

SpecCached == InitCached /\ [][NextCached]_vars

----------------------------------------------------------------------------
\* TwitterService: publishing the recommendations

\* config.TWEET_INTERVAL
tweetInterval == 1

\* getTweetKey(recommendation)
getTweetKey(recommendation) ==
    recommendation.track \o <<"-">> \o recommendation.betType \o <<"-">>
        \o recommendation.riskLevel

\* the index, from `from` on, of the first recommendation the loop of
\* tweetLatestRecommendations posts when Date.now() returns t (0: none):
\* !lastTweet || Date.now() - lastTweet > this.tweetInterval
NextDue(list, from, last, t) ==
    LET due == {i \in from..Len(list) :
                   LET tweetKey == getTweetKey(list[i])
                   IN  \/ tweetKey \notin DOMAIN last
                       \/ last[tweetKey] = 0
                       \/ t - last[tweetKey] > tweetInterval}
    IN  IF due = {} THEN 0 ELSE CHOOSE i \in due : \A j \in due : i <= j

\* the loop of invocation r, from index `from` on, up to its next await of
\* client.v2.tweet or to its end; with the end of the first invocation
\* startTweetingRecommendations goes on to setInterval (next = 0: no timer
\* yet; otherwise next is when the timer is due)
ContinueLoop(r, list, from, last, posted, t, next) ==
    LET i == NextDue(list, from, last, t)
    IN  /\ tweeting' = [tweeting EXCEPT ![r] =
                           IF i = 0 THEN [pc |-> "idle"]
                           ELSE [pc |-> "tweet", recommendations |-> list, i |-> i]]
        /\ posts' = IF i = 0 THEN posted
                    ELSE Append(posted, [key |-> getTweetKey(list[i]), at |-> t,
                                         by |-> r, posted |-> "pending"])
        /\ timer' = [started |-> TRUE,
                     next |-> IF i = 0 /\ next = 0 THEN t + tweetInterval
                              ELSE next]

\* tweetLatestRecommendations() from its call to its first await of a post:
\* the query is the one of line 49, Date.now() returns t throughout
TweetLatestRecommendations(r, t, next) ==
    LET options == [minConfidence |-> Num(4, 5), limit |-> 3]
        selected == SelectRecommendations(Values(recommendations), options)
        list == getRecommendations(Values(recommendations), options,
                                   [i \in DOMAIN selected |-> t])
    IN  /\ ContinueLoop(r, list, 1, lastTweetTime, posts, t, next)
        /\ now' = t
        /\ UNCHANGED <<recommendations, call, result, config, betterProfiles,
                       strategies, cycle, snapshot, cachedHistory,
                       lastTweetTime, bets, winningBets, payouts>>

\* startTweetingRecommendations(): the first invocation
StartTweetingRecommendations(t) ==
    /\ ~timer.started
    /\ t \in now..MaxTime
    /\ TweetLatestRecommendations(1, t, 0)

\* a callback of the interval timer, run no earlier than it is due, as
\* invocation r; the timer is next due one interval after this run began
TimerFires(r, t) ==
    /\ timer.next > 0
    /\ t \in now..MaxTime
    /\ t >= timer.next
    /\ tweeting[r].pc = "idle"
    /\ \A q \in 1..(r - 1) : tweeting[q].pc # "idle"
    /\ TweetLatestRecommendations(r, t, t + tweetInterval)

\* the post invocation r awaits has ended, posted or failed (the error is
\* caught in tweetRecommendation); the loop sets lastTweetTime and goes on
TweetSettled(r, ok, t) ==
    /\ tweeting[r].pc = "tweet"
    /\ t \in now..MaxTime
    /\ LET list == tweeting[r].recommendations
           i == tweeting[r].i
           tweetKey == getTweetKey(list[i])
           last == [k \in DOMAIN lastTweetTime \cup {tweetKey} |->
                       IF k = tweetKey THEN t ELSE lastTweetTime[k]]
           posted == [n \in DOMAIN posts |->
                         IF posts[n].by = r /\ posts[n].posted = "pending"
                         THEN [posts[n] EXCEPT !.posted = ok] ELSE posts[n]]
       IN  /\ lastTweetTime' = last
           /\ ContinueLoop(r, list, i + 1, last, posted, t, timer.next)
    /\ now' = t
    /\ UNCHANGED <<recommendations, call, result, config, betterProfiles,
                   strategies, cycle, snapshot, cachedHistory, bets,
                   winningBets, payouts>>

InitPublisher ==
    /\ config = BaseConfig
    /\ OthersIdle
    /\ \E list \in QueryLists :
         /\ Len(list) <= 2
         /\ recommendations = SetRecommendations(list, [i \in DOMAIN list |-> 1],
                                                 Len(list))
         /\ strategies = updateStrategies([recommendedStrategies |-> list],
                                          [i \in DOMAIN list |-> 1])
         /\ snapshot = list
    /\ now = 1
    /\ betterProfiles = <<>>
    /\ cycle = [p \in Procs |-> Idle]
    /\ call = NoCall
    /\ result = NoResult

NextPublisher ==
    \/ \E t \in 1..MaxTime : StartTweetingRecommendations(t)
    \/ \E r \in 1..MaxRuns, t \in 1..MaxTime : TimerFires(r, t)
    \/ \E r \in 1..MaxRuns, ok \in {"posted", "failed"}, t \in 1..MaxTime : TweetSettled(r, ok, t)

SpecPublisher == InitPublisher /\ [][NextPublisher]_vars

----------------------------------------------------------------------------
\* BettingContract (in memory).  The calls are taken one after the other.

\* config.minimumBet || 0.1
minimumBet == Num(1, 10)

\* calculatePayout(bet)
calculatePayout(bet) ==
    IF bet.type = Win THEN NumMul(bet.amount, bet.odds)
    ELSE IF bet.type = Place
         THEN NumMul(bet.amount, NumMul(bet.odds, Num(4, 5)))
    ELSE IF bet.type = Show
         THEN NumMul(bet.amount, NumMul(bet.odds, Num(3, 5)))
    ELSE Num(0, 1)

\* placeBet(user, race, horse, amount, betType), race.getCurrentOdds
\* answering odds; generateBetId and the timestamp each read the clock
PlaceBet(user, race, horse, amount, betType, odds) ==
    /\ call' = [op |-> "placeBet", n |-> 1 - call.n, user |-> user,
                amount |-> amount]
    /\ IF NumLt(amount, minimumBet)
       THEN /\ result' = [kind |-> "error"]
            /\ UNCHANGED <<now, bets>>
       ELSE \E times \in ClockSamples(now, 2) :
              LET betId == <<"bet", user, race, horse, times[1]>>
                  betDetails == [id |-> betId, user |-> user, race |-> race,
                                 horse |-> horse, amount |-> amount,
                                 type |-> betType, odds |-> odds,
                                 timestamp |-> times[2], status |-> "pending"]
              IN  /\ Cardinality(DOMAIN bets \cup {betId}) <= MaxPlaced
                  /\ bets' = [b \in DOMAIN bets \cup {betId} |->
                                 IF b = betId THEN betDetails ELSE bets[b]]
                  /\ result' = [kind |-> "placed", betId |-> betId]
                  /\ now' = times[2]
    /\ UNCHANGED <<recommendations, config, betterProfiles, strategies, cycle,
                   snapshot, cachedHistory, lastTweetTime, tweeting, timer,
                   posts, winningBets, payouts>>

\* updateBetStatus(betId, status, finalOdds)
UpdateBetStatus(betId, status, finalOdds) ==
    /\ call' = [op |-> "updateBetStatus", n |-> 1 - call.n, betId |-> betId,
                status |-> status]
    /\ IF betId \notin DOMAIN bets
       THEN /\ result' = [kind |-> "error"]
            /\ UNCHANGED <<bets, winningBets>>
       ELSE LET bet == [bets[betId] EXCEPT !.status = status]
                updated == IF finalOdds = Null THEN bet
                           ELSE [f \in DOMAIN bet \cup {"finalOdds"} |->
                                    IF f = "finalOdds" THEN finalOdds ELSE bet[f]]
            IN  /\ bets' = [bets EXCEPT ![betId] = updated]
                /\ winningBets' = IF status = "won"
                                  THEN winningBets \cup {betId} ELSE winningBets
                /\ result' = [kind |-> "updated", betId |-> betId]
    /\ UNCHANGED <<recommendations, now, config, betterProfiles, strategies,
                   cycle, snapshot, cachedHistory, lastTweetTime, tweeting,
                   timer, posts, payouts>>

\* claimWinnings(user, betId)
ClaimWinnings(user, betId) ==
    /\ call' = [op |-> "claimWinnings", n |-> 1 - call.n, user |-> user,
                betId |-> betId]
    /\ IF \/ betId \notin DOMAIN bets
          \/ bets[betId].user # user
          \/ bets[betId].status # "won"
       THEN /\ result' = [kind |-> "error"]
            /\ UNCHANGED <<now, bets, payouts>>
       ELSE \E t \in now..MaxTime :
              /\ Len(payouts) < MaxPayouts
              /\ bets' = [bets EXCEPT ![betId].status = "claimed"]
              /\ payouts' = Append(payouts,
                                   [betId |-> betId, user |-> user,
                                    payout |-> calculatePayout(bets[betId])])
              /\ result' = [kind |-> "claimed", betId |-> betId, timestamp |-> t]
              /\ now' = t
    /\ UNCHANGED <<recommendations, config, betterProfiles, strategies, cycle,
                   snapshot, cachedHistory, lastTweetTime, tweeting, timer,
                   posts, winningBets>>

Users == {"alice", "bob"}

\* the ids the calls name: those of the bets placed, and one of no bet
BetIds ==
    {<<"bet", user, "race1", "horse1", t>> : user \in Users, t \in {0, MaxTime}}

InitContract ==
    /\ config = BaseConfig
    /\ OthersIdle
    /\ recommendations = <<>>
    /\ strategies = <<>>
    /\ snapshot = <<>>
    /\ now = MaxTime
    /\ betterProfiles = <<>>
    /\ cycle = [p \in Procs |-> Idle]
    /\ call = NoCall
    /\ result = NoResult

NextContract ==
    \/ \E user \in Users, amount \in {Num(1, 20), Num(2, 1)},
          betType \in {Win, Place} :
           PlaceBet(user, "race1", "horse1", amount, betType, Num(3, 1))
    \/ \E betId \in BetIds, status \in {"won", "lost"},
          finalOdds \in {Null, Num(2, 1)} :
           UpdateBetStatus(betId, status, finalOdds)
    \/ \E user \in Users, betId \in BetIds : ClaimWinnings(user, betId)

SpecContract == InitContract /\ [][NextContract]_vars

----------------------------------------------------------------------------
\* Properties

StripLastUpdated(v) == [f \in DOMAIN v \ {"lastUpdated"} |-> v[f]]
StoredStrategies == Range(Values(recommendations))

\* The store is written by one step of a cycle only, the last, so a cycle
\* leaves the snapshot as it found it exactly if that step does.
CycleReturns(p) == cycle[p].pc = "update" /\ cycle'[p].pc = "idle"

\* C1: a cycle whose aggregation result is null is no update: the store
\* after refreshRecommendations/initialize returns is the store before.
C1_NullCycleKeepsSnapshot ==
    [][\A p \in Procs :
         CycleReturns(p) /\ cycle[p].aggregation = Null
            => recommendations' = recommendations]_vars

\* C2: a cycle whose aggregation has an empty recommendedStrategies list is
\* no update: the store, and so what a query returns, stays as it was.
C2_EmptyCycleKeepsSnapshot ==
    [][\A p \in Procs :
         /\ CycleReturns(p)
         /\ cycle[p].aggregation # Null
         /\ cycle[p].aggregation.recommendedStrategies = <<>>
         => recommendations' = recommendations]_vars

\* C3: whenever a query may read it, the store holds the complete strategy
\* set of the last aggregation result stored, never an emptied or partly
\* filled one.
C3_QuerySeesWholeSnapshot ==
    {StripLastUpdated(v) : v \in StoredStrategies} = Range(snapshot)

\* C4: at most one cycle is in flight at any time.
C4_OneCycleInFlight ==
    Cardinality({p \in Procs : cycle[p].pc # "idle"}) <= 1

\* Only the two read operations flip call.n.
ReadReturns == call'.n # call.n

SameInstant(times, t) == \A i \in DOMAIN times : times[i] = t

\* C5: getRecommendations and getRecommendationForRace leave the store as it
\* is, and a query repeated with the same options at the same instant
\* returns what the one before it returned.
C5_ReadsNeverWrite ==
    [][ReadReturns =>
         /\ recommendations' = recommendations
         /\ (/\ call.op = "getRecommendations"
             /\ call'.op = "getRecommendations"
             /\ call'.options = call.options
             /\ SameInstant(call.times, now')
             /\ SameInstant(call'.times, now')
             => result' = result)]_vars

W5_ReadDecayed ==
    /\ call.op \in {"getRecommendations", "getRecommendationForRace"}
    /\ result.kind = "list"
    /\ \E i \in DOMAIN result.items, v \in StoredStrategies :
         /\ getStrategyKey(v) = getStrategyKey(result.items[i])
         /\ v.confidence # result.items[i].confidence

\* the stored strategy a returned recommendation was read from
StoredOf(item) ==
    CHOOSE v \in StoredStrategies :
        v.track = item.track /\ v.betType = item.betType /\ v.riskLevel = item.riskLevel

\* A filter is supplied when the option is present and not the empty string.
Supplied(options, field) == field \in DOMAIN options /\ options[field] # <<>>

MatchesQuery(v, options) ==
    /\ Supplied(options, "track") => v.track = options.track
    /\ Supplied(options, "betType") => v.betType = options.betType
    /\ Supplied(options, "riskLevel") => v.riskLevel = options.riskLevel
    /\ NumGe(v.confidence,
             IF "minConfidence" \in DOMAIN options
             THEN options.minConfidence ELSE Num(7, 10))

\* C6: getRecommendations returns, in descending order of stored confidence,
\* the first limit (default 10) of the stored strategies that match every
\* supplied filter and have stored confidence >= minConfidence (default 0.7);
\* the store 0.95, 0.85, 0.82, 0.79, 0.6 queried with minConfidence 0.8 and
\* limit 3 gives 0.95, 0.85, 0.82.
C6_TopMatchesInOrder ==
    call.op = "getRecommendations" =>
        LET items == result.items
            limit == IF "limit" \in DOMAIN call.options THEN call.options.limit ELSE 10
            matching == {v \in StoredStrategies : MatchesQuery(v, call.options)}
            returned == {StoredOf(items[i]) : i \in DOMAIN items}
        IN  /\ \A i \in DOMAIN items :
                 \E v \in matching : StripLastUpdated(v) =
                     [StripLastUpdated(items[i]) EXCEPT !.confidence = v.confidence]
            /\ Cardinality(returned) = Len(items)
            /\ Len(items) = Min(limit, Cardinality(matching))
            /\ \A i, j \in DOMAIN items :
                 i < j => NumGe(StoredOf(items[i]).confidence,
                                StoredOf(items[j]).confidence)
            /\ \A v \in matching \ returned, w \in returned :
                 NumGe(w.confidence, v.confidence)
            /\ (/\ snapshot = ScenarioList
                /\ call.options = [minConfidence |-> Num(4, 5), limit |-> 3]
                => [i \in DOMAIN items |-> StoredOf(items[i]).confidence]
                     = <<Num(19, 20), Num(17, 20), Num(41, 50)>>)

W6_LimitCutsMatches ==
    /\ call.op = "getRecommendations"
    /\ snapshot = ScenarioList
    /\ call.options = [minConfidence |-> Num(4, 5), limit |-> 3]
    /\ Len(result.items) = 3

\* C7: each entry getRecommendations returns has the stored confidence times
\* 0.9 when Date.now() - lastUpdated > updateInterval and the stored
\* confidence otherwise, also when the difference is the interval exactly;
\* the factor does not grow with the age, nor with earlier reads.
C7_DecayOnRead ==
    call.op = "getRecommendations" =>
        \A i \in DOMAIN result.items :
            LET v == StoredOf(result.items[i])
            IN  result.items[i].confidence =
                    IF call.times[i] - v.lastUpdated > updateInterval
                    THEN Num(v.confidence.n * 9, v.confidence.d * 10)
                    ELSE v.confidence

W7_DecayedAndAtInterval ==
    /\ call.op = "getRecommendations"
    /\ \E i \in DOMAIN result.items :
         call.times[i] - StoredOf(result.items[i]).lastUpdated > updateInterval + 1
    /\ \E i \in DOMAIN result.items :
         call.times[i] - StoredOf(result.items[i]).lastUpdated = updateInterval

\* the number of race values the patterns of r mention
ContextMatches(r, race) ==
    Cardinality({f \in {"condition", "weather", "surface"} :
                    \E i \in DOMAIN r.patterns :
                        includes(toLowerCase(r.patterns[i]), toLowerCase(race[f]))})

RECURSIVE Power(_, _)
Power(b, k) == IF k = 0 THEN 1 ELSE b * Power(b, k - 1)

\* C8: adjustRecommendationsForRace gives each input recommendation the
\* confidence input x 1.1^k, k being the number of values among condition,
\* weather and surface that one of its patterns contains case-insensitively,
\* and attaches adjustedFor = {weather, condition, surface} to every output.
C8_ContextBoost ==
    (call.op = "getRecommendationForRace" /\ call.race # Null) =>
        /\ Len(result.items) = Len(call.recs)
        /\ \A i \in DOMAIN call.recs :
             LET r == call.recs[i]
                 k == ContextMatches(r, call.race)
             IN  \E j \in DOMAIN result.items :
                   LET out == result.items[j]
                   IN  /\ [f \in DOMAIN out \ {"adjustedFor"} |-> out[f]] =
                             [r EXCEPT !.confidence =
                                 Num(r.confidence.n * Power(11, k),
                                     r.confidence.d * Power(10, k))]
                       /\ out.adjustedFor = [weather |-> call.race.weather,
                                             condition |-> call.race.condition,
                                             surface |-> call.race.surface]

W8_AllThreeMatch ==
    /\ call.op = "getRecommendationForRace"
    /\ call.race # Null
    /\ \E i \in DOMAIN call.recs :
         /\ ContextMatches(call.recs[i], call.race) = 3
         /\ \E j \in DOMAIN result.items :
              /\ result.items[j].track = call.recs[i].track
              /\ result.items[j].betType = call.recs[i].betType
              /\ result.items[j].confidence =
                     Num(call.recs[i].confidence.n * 1331, call.recs[i].confidence.d * 1000)

\* C9: analyzeBetter returns a profile, and stores one, only if the history
\* has at least minBetsForAnalysis records and its computed profitability is
\* >= profitableThreshold; otherwise it returns null and stores nothing.
C9_ProfileOnlyIfValidAndProfitable ==
    [][(call'.n # call.n /\ call'.op = "analyzeBetter") =>
         LET h == call'.bettingHistory
             accepted == /\ Len(h) >= minBetsForAnalysis
                         /\ NumGe(calculateProfitability(h), profitableThreshold)
         IN  /\ result'.value # Null => accepted
             /\ betterProfiles' # betterProfiles => accepted
             /\ ~accepted => result'.value = Null /\ betterProfiles' = betterProfiles]_vars

\* C10: calculateProfitability returns a defined, non-negative number for
\* every history, and exactly 0 when the total amount staked is 0.
C10_ProfitabilityDefined ==
    call.op = "calculateProfitability" =>
        /\ ~IsNaN(result.value)
        /\ result.value.d # 0
        /\ SumAmounts(call.bettingHistory) = 0 => result.value = Num(0, 1)


\* the analysis of one address failed: the history fetch was rejected
\* (getBettingHistory answers []) or messages.create was rejected
ActorFailed(bettingHistory, response) ==
    bettingHistory = <<>> \/ response = Failed

\* C11: a failure for one address never aborts the cycle: the step of
\* analyzeBetters for an address whose history fetch or pattern extraction
\* fails adds no profile and keeps those gathered so far, the loop goes on
\* with every address behind it, and the cycle leaves the loop only with
\* no address left, aggregating the profiles gathered.
C11_ActorFailureKeepsCycle ==
    [][/\ \A bettingHistory \in CycleHistories, response \in ProfileResponses :
            AnalyzeNext(1, bettingHistory, response)
               => /\ cycle'[1].pc = "analyze"
                  /\ cycle'[1].addresses = Tail(cycle[1].addresses)
                  /\ ActorFailed(bettingHistory, response)
                        => cycle'[1].profiles = cycle[1].profiles
                  /\ ~ActorFailed(bettingHistory, response)
                        => /\ Len(cycle'[1].profiles) = Len(cycle[1].profiles) + 1
                           /\ SubSeq(cycle'[1].profiles, 1, Len(cycle[1].profiles))
                                 = cycle[1].profiles
                           /\ cycle'[1].profiles[Len(cycle'[1].profiles)].address
                                 = cycle[1].addresses[1]
       /\ cycle[1].pc = "analyze" /\ cycle'[1].pc # "analyze"
            => /\ cycle[1].addresses = <<>>
               /\ cycle'[1].pc = "update"
               /\ \/ cycle'[1].aggregation = Null
                  \/ cycle'[1].aggregation.sampleSize
                        = Len(filterValidProfiles(cycle[1].profiles))]_vars

\* the first address failed, the second was analysed after it and the
\* cycle has aggregated that one profile
W11_AggregatedAfterFailure ==
    /\ cycle[1].pc = "update"
    /\ cycle[1].aggregation # Null
    /\ cycle[1].aggregation.sampleSize = 1
    /\ DOMAIN betterProfiles = {"better1", "better2"}
    /\ DOMAIN betterProfiles["better1"] = {"lastUpdated"}
    /\ "address" \in DOMAIN betterProfiles["better2"]
    /\ betterProfiles["better1"].lastUpdated <= betterProfiles["better2"].timestamp


Triple(s) == <<s.track, s.betType, s.riskLevel>>

\* C12: the store key is unique within a snapshot: after
\* updateRecommendations(strategies) the store holds one entry for each
\* distinct (track, betType, riskLevel) of the aggregation output, none
\* overwriting another.
C12_DistinctTriplesDistinctEntries ==
    [][CycleReturns(1) /\ cycle[1].aggregation # Null
          => /\ Len(recommendations')
                  = Cardinality({Triple(s) :
                        s \in Range(cycle[1].aggregation.recommendedStrategies)})
             /\ \A s \in Range(cycle[1].aggregation.recommendedStrategies) :
                  \E v \in Range(Values(recommendations')) :
                      StripLastUpdated(v) = s]_vars

\* case-insensitive containment, letter by letter
SameLetter(a, b) ==
    \/ a = b
    \/ \E k \in DOMAIN UpperCase :
          {a, b} = {UpperCase[k], LowerCase[k]}

Mentions(text, name) ==
    \E off \in 0..(Len(text) - Len(name)) :
        \A j \in DOMAIN name : SameLetter(text[off + j], name[j])

\* the step of a cycle that aggregates: aggregateStrategies(profiles) is
\* called with cycle[1].profiles and returns cycle'[1].aggregation
Aggregated ==
    /\ cycle[1].pc = "analyze"
    /\ cycle'[1].pc = "update"
    /\ cycle'[1].aggregation # Null

\* C13: every emitted strategy has a non-empty patterns list, each pattern
\* naming the strategy's track or its bet type in any letter case; a pair
\* of a top track and a top bet type that no pattern names is not emitted.
C13_NoStrategyWithoutPattern ==
    [][Aggregated
          => LET out == cycle'[1].aggregation
                 pool == out.commonPatterns.betting \o out.commonPatterns.timing
                            \o out.commonPatterns.selection
             IN  /\ \A s \in Range(out.recommendedStrategies) :
                       /\ s.patterns # <<>>
                       /\ \A pt \in Range(s.patterns) :
                             Mentions(pt, s.track) \/ Mentions(pt, s.betType)
                 /\ \A tr \in Range(out.trackPreferences), bt \in Range(out.betTypes) :
                       (\A pt \in Range(pool) :
                            ~Mentions(pt, tr.track) /\ ~Mentions(pt, bt.type))
                          => ~\E s \in Range(out.recommendedStrategies) :
                                 s.track = tr.track /\ s.betType = bt.type]_vars

\* an aggregation that emitted a strategy and left out the pair of a track
\* and a bet type that every profile lists (confidence 1), no pattern
\* naming either
W13_FrequentPairLeftOut ==
    /\ cycle[1].pc = "update"
    /\ cycle[1].aggregation # Null
    /\ LET out == cycle[1].aggregation
       IN  /\ out.recommendedStrategies # <<>>
           /\ \E tr \in Range(out.trackPreferences), bt \in Range(out.betTypes) :
                 /\ tr.frequency = Num(1, 1)
                 /\ bt.frequency = Num(1, 1)
                 /\ ~\E s \in Range(out.recommendedStrategies) :
                        s.track = tr.track /\ s.betType = bt.type

\* the number of profiles whose risk profile is the tier, in any letter case
TierCount(profiles, tier) ==
    Cardinality({i \in DOMAIN profiles :
                    /\ Len(profiles[i].riskProfile) = Len(tier)
                    /\ \A j \in DOMAIN tier :
                          SameLetter(profiles[i].riskProfile[j], tier[j])})

\* the first tier, in the order conservative, moderate, aggressive, that no
\* tier outnumbers
DominantTier(profiles) ==
    RiskTiers[CHOOSE k \in DOMAIN RiskTiers :
        /\ \A j \in DOMAIN RiskTiers :
              TierCount(profiles, RiskTiers[j]) <= TierCount(profiles, RiskTiers[k])
        /\ \A j \in 1..(k - 1) :
              TierCount(profiles, RiskTiers[j]) < TierCount(profiles, RiskTiers[k])]

\* the profiles the aggregator's thresholds accept
ValidOf(profiles) ==
    SelectSeq(profiles, LAMBDA profile :
        /\ NumGe(profile.profitability,
                 IF config.minProfitability.n # 0
                 THEN config.minProfitability ELSE DefaultMinProfitability)
        /\ profile.totalBets >=
                 (IF config.minBets # 0 THEN config.minBets ELSE DefaultMinBets))

\* C14: every strategy of a cycle carries the tier most frequent among the
\* valid profiles, ties going to the tier declared first (conservative,
\* moderate, aggressive).
C14_DominantRiskTier ==
    [][Aggregated
          => \A s \in Range(cycle'[1].aggregation.recommendedStrategies) :
                 s.riskLevel = DominantTier(ValidOf(cycle[1].profiles))]_vars

\* three valid profiles, two moderate and one aggressive: strategies carry
\* moderate
W14_TwoModerateOneAggressive ==
    /\ cycle[1].pc = "update"
    /\ cycle[1].aggregation # Null
    /\ LET out == cycle[1].aggregation
       IN  /\ out.sampleSize = 3
           /\ \E r \in Range(out.riskProfiles) : r.profile = Moderate /\ r.count = 2
           /\ \E r \in Range(out.riskProfiles) : r.profile = Aggressive /\ r.count = 1
           /\ out.recommendedStrategies # <<>>
           /\ \A s \in Range(out.recommendedStrategies) : s.riskLevel = Moderate


Ellipsis == <<".", ".", ".">>
EndsWithEllipsis(text) ==
    Len(text) >= 3 /\ SubSeq(text, Len(text) - 2, Len(text)) = Ellipsis

\* C15: the rendered message has at most 280 characters and the key pattern
\* in it at most 50; a text longer than its budget comes out of
\* truncateText with exactly the budget's length, ending with '...'.
C15_TweetWithinBudget ==
    /\ call.op = "formatRecommendationTweet"
          => /\ Len(result.value) <= 280
             /\ call.insight # Null
                   => LET pattern == call.recommendation.patterns[1]
                      IN  /\ Len(call.insight) <= 50
                          /\ Len(pattern) <= 50 => call.insight = pattern
                          /\ Len(pattern) > 50
                                => /\ Len(call.insight) = 50
                                   /\ EndsWithEllipsis(call.insight)
                                   /\ SubSeq(call.insight, 1, 47) = SubSeq(pattern, 1, 47)
    /\ call.op = "truncateText"
          => /\ Len(call.text) > call.maxLength
                   => /\ Len(result.value) = call.maxLength
                      /\ EndsWithEllipsis(result.value)
             /\ Len(call.text) <= call.maxLength => result.value = call.text

\* a tweet cut to 280 characters around a key pattern cut to 50
W15_TweetAndPatternCut ==
    /\ call.op = "formatRecommendationTweet"
    /\ call.insight # Null
    /\ Len(call.recommendation.patterns[1]) > 50
    /\ Len(call.insight) = 50
    /\ Len(result.value) = 280
    /\ EndsWithEllipsis(result.value)


\* the thresholds of analyzeBetter
BuilderAccepts(profile) ==
    /\ profile.totalBets >= minBetsForAnalysis
    /\ NumGe(profile.profitability, profitableThreshold)

\* C16: the aggregator's filter is the builder's predicate: of the profiles
\* handed to aggregateStrategies, filterValidProfiles keeps exactly those
\* with totalBets >= minBetsForAnalysis and profitability >=
\* profitableThreshold, under every configuration.
C16_SameValidityPredicate ==
    cycle[1].pc = "analyze" /\ cycle[1].addresses = <<>>
       => filterValidProfiles(cycle[1].profiles)
             = SelectSeq(cycle[1].profiles, BuilderAccepts)


\* every pattern of the profiles
ProfilePatterns(profiles) ==
    UNION {Range(profiles[i].patterns) : i \in DOMAIN profiles}

\* C17: the patterns of a strategy are the valid profiles' own patterns that
\* name its track or its bet type in any letter case: no other pattern
\* appears, and every such profile pattern does.
C17_PatternsComeFromProfiles ==
    [][Aggregated
          => \A s \in Range(cycle'[1].aggregation.recommendedStrategies) :
                 Range(s.patterns)
                    = {pt \in ProfilePatterns(ValidOf(cycle[1].profiles)) :
                          Mentions(pt, s.track) \/ Mentions(pt, s.betType)}]_vars

\* the number of profiles whose list (preferredTracks, preferredBetTypes)
\* holds the item
Listing(profiles, field, item) ==
    Cardinality({i \in DOMAIN profiles : item \in Range(profiles[i][field])})

\* where the item is first seen going through the profiles' lists in order
FirstSeenAt(profiles, field, item) ==
    LET items == Flatten([i \in DOMAIN profiles |-> profiles[i][field]])
    IN  CHOOSE k \in DOMAIN items :
            items[k] = item /\ \A j \in 1..(k - 1) : items[j] # item

\* ranked (names[i] naming the item of ranked[i]): frequency = listing
\* profiles / profiles, descending, ties in first-seen order; an item every
\* profile lists has frequency 1 and no item ranks above it
RankedByListing(profiles, field, ranked, names) ==
    /\ \A i \in DOMAIN ranked :
          ranked[i].frequency = Num(Listing(profiles, field, names[i]), Len(profiles))
    /\ \A i, j \in DOMAIN ranked :
          i < j => /\ NumGe(ranked[i].frequency, ranked[j].frequency)
                   /\ ranked[i].frequency = ranked[j].frequency
                         => FirstSeenAt(profiles, field, names[i])
                               < FirstSeenAt(profiles, field, names[j])
    /\ \A i \in DOMAIN ranked :
          Listing(profiles, field, names[i]) = Len(profiles)
             => ranked[i].frequency = Num(1, 1) /\ ranked[1].frequency = Num(1, 1)

\* every strategy pairs one of the first three tracks with one of the
\* first three bet types: at most 9 strategies
FromTopThree(out) ==
    /\ \A s \in Range(out.recommendedStrategies) :
          /\ \E k \in DOMAIN out.trackPreferences :
                k <= 3 /\ out.trackPreferences[k].track = s.track
          /\ \E k \in DOMAIN out.betTypes :
                k <= 3 /\ out.betTypes[k].type = s.betType
    /\ Len(out.recommendedStrategies) <= 9

\* C18: track and bet type frequencies are (valid profiles listing the
\* item) / (valid profiles), ranked descending with ties in first-seen
\* order; strategies come from the first three of each ranking, at most 9;
\* a track every profile lists has frequency 1.0 and ranks first.
C18_FrequenciesAndTopThree ==
    [][Aggregated
          => LET out == cycle'[1].aggregation
                 valid == ValidOf(cycle[1].profiles)
             IN  /\ RankedByListing(valid, "preferredTracks",
                                    out.trackPreferences,
                                    [k \in DOMAIN out.trackPreferences |->
                                        out.trackPreferences[k].track])
                 /\ RankedByListing(valid, "preferredBetTypes",
                                    out.betTypes,
                                    [k \in DOMAIN out.betTypes |->
                                        out.betTypes[k].type])
                 /\ FromTopThree(out)]_vars

\* the usage table: base stake and minimum odds of the tier
BaseStake(tier) ==
    IF tier = Conservative THEN Num(1, 100)
    ELSE IF tier = Moderate THEN Num(2, 100) ELSE Num(3, 100)

MinOdds(tier) ==
    IF tier = Conservative THEN Num(3, 2)
    ELSE IF tier = Moderate THEN Num(2, 1) ELSE Num(3, 1)

UsageTable(tier, confidence) ==
    LET stake == NumMul(BaseStake(tier), confidence)
    IN  [recommendedStake |-> stake,
         minOdds |-> MinOdds(tier),
         maxStake |-> NumMul(Num(2, 1), stake),
         stopLoss |-> NumMul(Num(10, 1), stake),
         targetProfit |-> NumMul(Num(20, 1), stake)]

\* C19: a strategy's confidence is the mean of its track's and its bet
\* type's frequency, and its recommendedUsage is the usage table at the
\* cycle's dominant risk tier and that confidence.
C19_ConfidenceAndUsage ==
    [][Aggregated
          => LET out == cycle'[1].aggregation
                 tier == DominantTier(ValidOf(cycle[1].profiles))
             IN  \A s \in Range(out.recommendedStrategies) :
                    \E tr \in Range(out.trackPreferences), bt \in Range(out.betTypes) :
                       /\ tr.track = s.track
                       /\ bt.type = s.betType
                       /\ s.confidence
                             = NumDiv(NumAdd(tr.frequency, bt.frequency), Num(2, 1))
                       /\ s.recommendedUsage = UsageTable(tier, s.confidence)]_vars

\* strategies of the moderate tier and of a confidence under 1
W19_ModerateBelowOne ==
    /\ cycle[1].pc = "update"
    /\ cycle[1].aggregation # Null
    /\ \E s \in Range(cycle[1].aggregation.recommendedStrategies) :
          /\ s.riskLevel = Moderate
          /\ NumLt(s.confidence, Num(1, 1))
          /\ s.recommendedUsage.recommendedStake = NumMul(Num(2, 100), s.confidence)
          /\ s.recommendedUsage.minOdds = Num(2, 1)

\* C20: the entries of the store, written by one snapshot replacement,
\* carry one lastUpdated, so at a query either all are past the update
\* interval or none is.
C20_OneLastUpdatedPerSnapshot ==
    \A v, w \in StoredStrategies : v.lastUpdated = w.lastUpdated


\* the builder's decision on a history: enough bets and profitable enough
HistoryAccepted(bettingHistory) ==
    /\ Len(bettingHistory) >= minBetsForAnalysis
    /\ ~NumLt(calculateProfitability(bettingHistory), profitableThreshold)

\* C21: a cycle builds an actor's profile from the history the source holds
\* during that cycle: the step of analyzeBetters for an address, the source
\* answering fetched, gathers a profile only if fetched is accepted, and
\* the profile's totalBets, profitability and winRate are those of fetched.
C21_ProfileFromFreshHistory ==
    [][\A fetched \in SourceHistories, response \in ProfileResponses :
          AnalyzeNextCached(1, fetched, response)
             => LET before == cycle[1].profiles
                    after == cycle'[1].profiles
                IN  /\ HistoryAccepted(fetched) /\ response # Failed
                          <=> Len(after) = Len(before) + 1
                    /\ Len(after) = Len(before) + 1
                          => /\ after[Len(after)].totalBets = Len(fetched)
                             /\ after[Len(after)].profitability
                                   = calculateProfitability(fetched)
                             /\ after[Len(after)].winRate = WinRate(fetched)]_vars


\* the headers processAIResponse knows, and the field each one fills
KnownHeaders ==
    <<[header |-> HdrBettingPatterns, field |-> "patterns"],
      [header |-> HdrPreferredTracks, field |-> "preferredTracks"],
      [header |-> HdrPreferredBetTypes, field |-> "preferredBetTypes"],
      [header |-> HdrRiskProfile, field |-> "riskProfile"],
      [header |-> HdrSuccessFactors, field |-> "successFactors"],
      [header |-> HdrRecommendedStrategies, field |-> "recommendedStrategies"]>>

\* a section that is a header line: its text ends with a colon
IsHeader(section) ==
    LET text == trim(section) IN Len(text) > 0 /\ text[Len(text)] = ":"

\* section i of the response is text under the known header h: it is no
\* header itself, and the last header before it is h
Under(response, i, h) ==
    /\ ~IsHeader(response[i])
    /\ trim(response[i]) # <<>>
    /\ \E j \in 1..(i - 1) :
          /\ response[j] = h
          /\ \A k \in (j + 1)..(i - 1) : ~IsHeader(response[k])

\* the texts under the known header h, in order
TextsUnder(response, h) ==
    LET idx == SelectSeq([i \in DOMAIN response |-> i],
                         LAMBDA i : Under(response, i, h))
    IN  [k \in DOMAIN idx |-> trim(response[idx[k]])]

\* C22: processAIResponse gives a field the sections that follow that
\* field's header and nothing else: text before any known header or under
\* a header it does not know goes to no field, and a field whose header is
\* absent keeps its empty default.
C22_SectionsFollowTheirHeader ==
    call.op = "processAIResponse"
       => \A k \in DOMAIN KnownHeaders :
             LET texts == TextsUnder(call.response, KnownHeaders[k].header)
                 value == result.value[KnownHeaders[k].field]
             IN  IF KnownHeaders[k].field = "riskProfile"
                 THEN value = IF texts = <<>> THEN <<>> ELSE texts[Len(texts)]
                 ELSE value = texts


\* C23: every recommendation getRecommendations returns has a returned
\* confidence >= the query's minConfidence (0.7 when none is given), at any
\* clock value; so with the publisher's query (minConfidence 0.8) nothing
\* under 0.8 is handed on.
C23_ReturnedConfidenceAtLeastMin ==
    call.op = "getRecommendations"
       => \A item \in Range(result.items) :
             NumGe(item.confidence,
                   IF "minConfidence" \in DOMAIN call.options
                   THEN call.options.minConfidence ELSE Num(7, 10))

\* C24: the list getRecommendations returns is in non-increasing order of
\* the returned confidence.
C24_ReturnedOrderNonIncreasing ==
    call.op = "getRecommendations"
       => \A i, j \in DOMAIN result.items :
             i < j => NumGe(result.items[i].confidence, result.items[j].confidence)

\* C25: every recommendation getRecommendationForRace returns is for the
\* race's track, whatever options are passed; a race that cannot be
\* resolved gives null, the store not being read.
C25_RaceTrackOnly ==
    call.op = "getRecommendationForRace"
       => IF call.race = Null
          THEN result.kind = "null" /\ call.times = <<>>
          ELSE /\ result.kind = "list"
               /\ \A item \in Range(result.items) : item.track = call.race.track


\* C26: every entry of betterProfiles is a complete profile, with its
\* patterns and recommendedStrategies lists, whatever calls of analyzeBetter
\* succeeded or failed; a failed pattern extraction stores nothing.
C26_ProfilesComplete ==
    \A a \in DOMAIN betterProfiles :
        {"address", "profitability", "totalBets", "patterns",
         "recommendedStrategies"} \subseteq DOMAIN betterProfiles[a]

\* C27: aggregateRiskProfiles counts every valid profile in exactly one of
\* the three tiers: the tier counts sum to the number of profiles, the
\* frequencies to 1, and the dominant tier's frequency is positive.
C27_EveryProfileInOneTier ==
    [][Aggregated
          => LET tiers == cycle'[1].aggregation.riskProfiles
             IN  /\ Len(tiers) = 3
                 /\ tiers[1].count + tiers[2].count + tiers[3].count
                       = cycle'[1].aggregation.sampleSize
                 /\ NumAdd(NumAdd(tiers[1].frequency, tiers[2].frequency),
                           tiers[3].frequency) = Num(1, 1)
                 /\ NumGt(tiers[1].frequency, Num(0, 1))]_vars

\* the (track, betType, confidence) of the strategies a Map holds
Held(map) ==
    {<<v.track, v.betType, v.confidence>> : v \in Range(Values(map))}

\* C28: when a cycle has completed, the aggregator's strategies map and the
\* store hold the same (track, betType) strategies with the same
\* confidences, also when cycles overlap or the aggregation result is null.
C28_AggregatorMapMatchesStore ==
    [][\A p \in Procs :
          CycleReturns(p) => Held(strategies') = Held(recommendations')]_vars


\* C29: two calls of client.v2.tweet for one key are more than tweetInterval
\* apart, also when invocations of tweetLatestRecommendations overlap, and a
\* key is in lastTweetTime only once a message for it was posted.
C29_AttemptsApartAndRecordedWhenPosted ==
    /\ \A a, b \in DOMAIN posts :
          a < b /\ posts[a].key = posts[b].key
             => posts[b].at - posts[a].at > tweetInterval
    /\ \A tweetKey \in DOMAIN lastTweetTime :
          \E a \in DOMAIN posts :
             posts[a].key = tweetKey /\ posts[a].posted = "posted"


\* C30: a claimWinnings call succeeds only for a bet that exists, belongs
\* to the caller and has status 'won', and leaves it 'claimed'; no bet is
\* paid out more than once; a rejected placeBet or claimWinnings leaves the
\* bets map as it was.
C30_ClaimsPaidOnce ==
    [][/\ call' # call /\ call'.op = "claimWinnings" /\ result'.kind = "claimed"
          => /\ call'.betId \in DOMAIN bets
             /\ bets[call'.betId].user = call'.user
             /\ bets[call'.betId].status = "won"
             /\ bets'[call'.betId].status = "claimed"
       /\ \A a, b \in DOMAIN payouts' :
             payouts'[a].betId = payouts'[b].betId => a = b
       /\ call' # call /\ call'.op \in {"placeBet", "claimWinnings"}
             /\ result'.kind = "error"
          => bets' = bets]_vars

====
